---------------------------- MODULE Spec2Model ----------------------------
(***************************************************************************)
(* A model of the log analyzer: streaming ingestion (app/ingestion.py),    *)
(* line parsing with multiline reconstruction (app/parsing.py), template   *)
(* normalization and de-duplication (app/normalization.py), clustering     *)
(* (app/clustering.py), and the summary/aggregation boundary               *)
(* (app/aggregation.py, app/llm_summary.py, app/analyzer.py).              *)
(*                                                                         *)
(* Text is modelled character by character: a message or a line is a TLA+  *)
(* string, a character is a string of length one, and the regular          *)
(* expressions of the source are terms interpreted by a backtracking       *)
(* matcher with the priorities of Python's re module.                      *)
(***************************************************************************)
EXTENDS Integers, Sequences, FiniteSets, TLC

VARIABLES
    pc,                   \* position of the running operation
    call,                 \* the operation that was called
    message,              \* normalize_message: the argument
    normalized,           \* normalize_message: the value returned for message
    renormalized,         \* normalize_message: the value returned for normalized
    min_level,            \* LogNormalizer.min_level
    all_entries,          \* the entries the normalizer's input iterator has yielded
    high_signal_entries,  \* process_entries: the local list high_signal_entries
    templates,            \* LogNormalizer._templates, in dict insertion order
    lines,                \* parse_lines: the lines of its input iterator
    line_num,             \* parse_lines: the number of lines consumed
    pending_multiline,    \* LogParser._pending_multiline
    entries,              \* parse_lines: the entries yielded so far
    max_clusters,         \* ErrorClusterer.max_clusters
    cluster_labels,       \* cluster_templates: the local cluster_labels
    clusters,             \* cluster_templates: the list it returns
    filename,             \* read_log_file: the argument filename
    file,                 \* read_log_file: what the argument file holds
    chunk_size,           \* the chunk size (CHUNK_SIZE, scaled to the files)
    file_pos,             \* the position of file: the bytes read so far
    text_stream,          \* _read_gzip_file: the text left in text_stream
    buffer,               \* _read_gzip_file, _read_plain_file: the local buffer
    eof,                  \* the generator of read_log_file is exhausted
    use_llm,              \* LogAnalyzer.use_llm
    llm_api_key,          \* LogAnalyzer.llm_api_key
    env_api_key,          \* os.environ.get("GEMINI_API_KEY")
    api_calls,            \* the number of requests posted to the external service
    request,              \* the request posted: its key and its text
    llm_summary,          \* analyze: the local llm_summary
    result,               \* the AnalysisResult analyze() returns
    error                 \* the exception raised out of the operation: stage and type

vars == <<pc, call, message, normalized, renormalized, min_level, all_entries,
          high_signal_entries, templates, lines, line_num, pending_multiline,
          entries, max_clusters, cluster_labels, clusters, filename, file, chunk_size,
          file_pos, text_stream, buffer, eof, use_llm, llm_api_key, env_api_key,
          api_calls, request, llm_summary, result, error>>

normalizeVars == <<message, normalized, renormalized>>
processVars == <<min_level, all_entries, high_signal_entries, templates>>
parseVars == <<lines, line_num, pending_multiline, entries>>
clusterVars == <<max_clusters, cluster_labels, clusters>>
ingestVars == <<filename, file, chunk_size, file_pos, text_stream, buffer, eof>>
summaryVars == <<use_llm, llm_api_key, env_api_key, api_calls, request, llm_summary, result>>

\* the called operation returns; inside analyze() the stage next follows
Return(next) == pc' = IF call = "analyze" THEN next ELSE "done"

-----------------------------------------------------------------------------
(* Characters and strings *)

Ch(s, i) == SubSeq(s, i, i)

\* the element of a one-element set: Only({f(x) : x \in {e}}) is f(e), with e
\* evaluated once
Only(S) == CHOOSE x \in S : TRUE

Digit == {"0", "1", "2", "3", "4", "5", "6", "7", "8", "9"}
LowerCh == {"a", "b", "c", "d", "e", "f", "g", "h", "i", "j", "k", "l", "m",
            "n", "o", "p", "q", "r", "s", "t", "u", "v", "w", "x", "y", "z"}
UpperCh == {"A", "B", "C", "D", "E", "F", "G", "H", "I", "J", "K", "L", "M",
            "N", "O", "P", "Q", "R", "S", "T", "U", "V", "W", "X", "Y", "Z"}
HexCh == Digit \cup {"a", "b", "c", "d", "e", "f", "A", "B", "C", "D", "E", "F"}
AlnumCh == LowerCh \cup UpperCh \cup Digit
\* \w and \s of Python's re on the ASCII text the model feeds it
WordCh == AlnumCh \cup {"_"}
SpaceCh == {" ", "\t", "\n", "\r", "\f"}

LowerPairs == <<"a", "b", "c", "d", "e", "f", "g", "h", "i", "j", "k", "l", "m",
                "n", "o", "p", "q", "r", "s", "t", "u", "v", "w", "x", "y", "z">>
UpperPairs == <<"A", "B", "C", "D", "E", "F", "G", "H", "I", "J", "K", "L", "M",
                "N", "O", "P", "Q", "R", "S", "T", "U", "V", "W", "X", "Y", "Z">>

\* str.lower() and str.upper() of one character
LowerOf(c) ==
    IF c \in UpperCh
    THEN LowerPairs[CHOOSE k \in 1..26 : UpperPairs[k] = c]
    ELSE c
UpperOf(c) ==
    IF c \in LowerCh
    THEN UpperPairs[CHOOSE k \in 1..26 : LowerPairs[k] = c]
    ELSE c

\* the least and the greatest element of a non-empty set of integers
MinOf(S) == CHOOSE x \in S : \A y \in S : x <= y
MaxOf(S) == CHOOSE x \in S : \A y \in S : x >= y

\* str.lower() and str.upper(); the halves keep the recursion shallow
RECURSIVE StrLower(_)
StrLower(s) ==
    IF Len(s) = 0 THEN ""
    ELSE IF Len(s) = 1 THEN LowerOf(s)
    ELSE StrLower(SubSeq(s, 1, Len(s) \div 2))
             \o StrLower(SubSeq(s, Len(s) \div 2 + 1, Len(s)))

RECURSIVE StrUpper(_)
StrUpper(s) ==
    IF Len(s) = 0 THEN ""
    ELSE IF Len(s) = 1 THEN UpperOf(s)
    ELSE StrUpper(SubSeq(s, 1, Len(s) \div 2))
             \o StrUpper(SubSeq(s, Len(s) \div 2 + 1, Len(s)))

\* str.strip(), str.lstrip(): leading and trailing whitespace removed
NonSpaceAt(s) == {k \in 1..Len(s) : Ch(s, k) \notin SpaceCh}
LStrip(s) ==
    IF NonSpaceAt(s) = {} THEN "" ELSE SubSeq(s, MinOf(NonSpaceAt(s)), Len(s))
Strip(s) ==
    IF NonSpaceAt(s) = {} THEN ""
    ELSE SubSeq(s, MinOf(NonSpaceAt(s)), MaxOf(NonSpaceAt(s)))

\* Python's "kw in s" on strings
StartsWithAt(s, i, kw) ==
    /\ i + Len(kw) - 1 <= Len(s)
    /\ SubSeq(s, i, i + Len(kw) - 1) = kw
Contains(s, kw) == \E i \in 1..(Len(s) + 1) : StartsWithAt(s, i, kw)
StartsWith(s, kw) == StartsWithAt(s, 1, kw)

-----------------------------------------------------------------------------
(* Regular expressions: terms, and the matcher of re.match / re.search /    *)
(* re.sub.  MatchK(stk, s, i) is the end position (the index of the first   *)
(* character after the match) of the first match, in backtracking order, of *)
(* the concatenation of the terms of stk at position i of s; 0 when there   *)
(* is none.                                                                 *)

Set(cs) == [t |-> "set", cs |-> cs]
NSet(cs) == [t |-> "nset", cs |-> cs]
Cat(rs) == [t |-> "cat", rs |-> rs]
Alt(rs) == [t |-> "alt", rs |-> rs]
\* greedy repetition r{mn,mx}; mx = -1 is no upper limit
Rep(r, mn, mx) == [t |-> "rep", r |-> r, mn |-> mn, mx |-> mx]
Opt(r) == Rep(r, 0, 1)
Plus(r) == Rep(r, 1, -1)
Star(r) == Rep(r, 0, -1)
WordB == [t |-> "wordb"]
Bol == [t |-> "bol"]
Eol == [t |-> "eol"]
\* (?<=r) for an r that matches exactly n characters, and (?=r)
Behind(r, n) == [t |-> "behind", r |-> r, n |-> n]
Ahead(r) == [t |-> "ahead", r |-> r]
Lit(str) == Cat([k \in 1..Len(str) |-> Set({Ch(str, k)})])
\* a literal under re.IGNORECASE
LitCI(str) == Cat([k \in 1..Len(str) |-> Set({LowerOf(Ch(str, k)), UpperOf(Ch(str, k))})])

IsWordAt(s, i) == i >= 1 /\ i <= Len(s) /\ Ch(s, i) \in WordCh

IsCharClass(r) == r.t \in {"set", "nset"}
CharOk(r, c) == IF r.t = "set" THEN c \in r.cs ELSE c \notin r.cs

\* the number of consecutive characters of s from position i on that the
\* character class r accepts, at most mx of them (mx = -1: no limit)
RunLen(r, s, i, mx) ==
    LET avail == Len(s) - i + 1
        limit == IF mx >= 0 /\ mx < avail THEN mx ELSE avail
        bad == {k \in 0..(limit - 1) : ~CharOk(r, Ch(s, i + k))}
    IN IF bad = {} THEN limit ELSE MinOf(bad)

RECURSIVE MatchK(_, _, _)
RECURSIVE MatchAlt(_, _, _, _)
MatchK(stk, s, i) ==
    IF Len(stk) = 0 THEN i
    ELSE LET r == Head(stk)
             rest == Tail(stk)
         IN CASE IsCharClass(r) ->
                   IF i <= Len(s) /\ CharOk(r, Ch(s, i)) THEN MatchK(rest, s, i + 1) ELSE 0
              [] r.t = "cat" -> MatchK(r.rs \o rest, s, i)
              [] r.t = "alt" -> MatchAlt(r.rs, rest, s, i)
              [] r.t = "rep" /\ IsCharClass(r.r) ->
                   \* greedy: the longest run first, then shorter ones
                   LET run == RunLen(r.r, s, i, r.mx)
                       ok == {n \in r.mn..run : MatchK(rest, s, i + n) # 0}
                   IN IF ok = {} THEN 0 ELSE MatchK(rest, s, i + MaxOf(ok))
              [] r.t = "rep" /\ ~IsCharClass(r.r) ->
                   LET more == IF r.mx = 0 THEN 0
                               ELSE MatchK(<<r.r, Rep(r.r,
                                                     IF r.mn > 0 THEN r.mn - 1 ELSE 0,
                                                     IF r.mx > 0 THEN r.mx - 1 ELSE r.mx)>>
                                           \o rest, s, i)
                   IN IF more # 0 THEN more
                      ELSE IF r.mn = 0 THEN MatchK(rest, s, i) ELSE 0
              [] r.t = "wordb" ->
                   IF IsWordAt(s, i - 1) # IsWordAt(s, i) THEN MatchK(rest, s, i) ELSE 0
              [] r.t = "bol" -> IF i = 1 THEN MatchK(rest, s, i) ELSE 0
              [] r.t = "eol" ->
                   IF i = Len(s) + 1 \/ (i = Len(s) /\ Ch(s, i) = "\n")
                   THEN MatchK(rest, s, i) ELSE 0
              [] r.t = "behind" ->
                   IF i - r.n >= 1 /\ MatchK(<<r.r>>, s, i - r.n) = i
                   THEN MatchK(rest, s, i) ELSE 0
              [] r.t = "ahead" ->
                   IF MatchK(<<r.r>>, s, i) # 0 THEN MatchK(rest, s, i) ELSE 0
MatchAlt(alts, rest, s, i) ==
    IF Len(alts) = 0 THEN 0
    ELSE LET first == MatchK(<<Head(alts)>> \o rest, s, i)
         IN IF first # 0 THEN first ELSE MatchAlt(Tail(alts), rest, s, i)

\* pattern.match(s): the end position of the match at the start of s, or 0
ReMatch(r, s) == MatchK(<<r>>, s, 1)

\* pattern.search(s) from position from: <<start, end>> of the leftmost match,
\* or <<0, 0>>
ReSearchFrom(r, s, from) ==
    LET hits == {p \in from..(Len(s) + 1) : MatchK(<<r>>, s, p) # 0}
    IN IF hits = {} THEN <<0, 0>>
       ELSE <<MinOf(hits), MatchK(<<r>>, s, MinOf(hits))>>
ReSearch(r, s) == ReSearchFrom(r, s, 1)
ReFound(r, s) == ReSearch(r, s)[1] # 0

\* pattern.sub(repl, s) for a pattern that matches no empty string and a
\* replacement without group references
RECURSIVE ReSubFrom(_, _, _, _)
ReSubFrom(r, repl, s, from) ==
    Only({IF m[1] = 0 THEN SubSeq(s, from, Len(s))
          ELSE SubSeq(s, from, m[1] - 1) \o repl \o ReSubFrom(r, repl, s, m[2]) :
          m \in {ReSearchFrom(r, s, from)}})
ReSub(r, repl, s) == ReSubFrom(r, repl, s, 1)

-----------------------------------------------------------------------------
(* app/models.py *)

LogLevel == {"TRACE", "DEBUG", "INFO", "WARN", "ERROR", "FATAL", "UNKNOWN"}

\* LogLevel.<name>.value
LevelValue(l) ==
    CASE l = "TRACE" -> 0
      [] l = "DEBUG" -> 1
      [] l = "INFO" -> 2
      [] l = "WARN" -> 3
      [] l = "ERROR" -> 4
      [] l = "FATAL" -> 5
      [] l = "UNKNOWN" -> -1

\* Optional[str]: None is the empty tuple, a string s is <<s>>
None == <<>>
Some(s) == <<s>>
\* bool(x) of an Optional[str]
Truthy(opt) == opt # None /\ opt[1] # ""

\* ParsedLogEntry(...)
ParsedLogEntry(raw_line, line_number, level, msg, timestamp, exception) ==
    [raw_line |-> raw_line, line_number |-> line_number, level |-> level,
     message |-> msg, timestamp |-> timestamp, logger |-> None,
     exception |-> exception, is_multiline |-> FALSE]

\* ParsedLogEntry.is_error, ParsedLogEntry.has_exception
is_error(entry) == entry.level \in {"ERROR", "FATAL"}
has_exception(entry) == Truthy(entry.exception)

\* a template that is created already counted once
ErrorTemplateCounted(template, first_occurrence_line) ==
    [template |-> template, original_messages |-> <<>>, count |-> 1,
     first_occurrence_line |-> first_occurrence_line]

\* ErrorTemplate(template=..., count=0, first_occurrence_line=...)
ErrorTemplate(template, first_occurrence_line) ==
    [template |-> template, original_messages |-> <<>>, count |-> 0,
     first_occurrence_line |-> first_occurrence_line]

\* the number of example messages ErrorTemplate.add_occurrence keeps
MaxExamples == 3

\* add_occurrence with the test "<=" for "<": one example more is kept
add_occurrence_one_more(tpl, msg, line_number) ==
    [tpl EXCEPT
       !.count = @ + 1,
       !.original_messages =
           IF Len(@) <= MaxExamples THEN Append(@, msg) ELSE @,
       !.first_occurrence_line = IF @ = 0 THEN line_number ELSE @]

\* ErrorTemplate.add_occurrence
add_occurrence(tpl, msg, line_number) ==
    [tpl EXCEPT
       !.count = @ + 1,
       !.original_messages =
           IF Len(@) < MaxExamples THEN Append(@, msg) ELSE @,
       !.first_occurrence_line = IF @ = 0 THEN line_number ELSE @]

-----------------------------------------------------------------------------
(* app/normalization.py *)

HexN(n) == Rep(Set(HexCh), n, n)
DigN(n) == Rep(Set(Digit), n, n)

\* VARIABLE_PATTERNS, in the order of the list; each is <<pattern, placeholder>>
VARIABLE_PATTERNS == <<
    <<Cat(<<HexN(8), Lit("-"), HexN(4), Lit("-"), HexN(4), Lit("-"), HexN(4),
            Lit("-"), HexN(12)>>), "<UUID>">>,
    <<HexN(24), "<OBJECT_ID>">>,
    <<Cat(<<WordB, HexN(40), WordB>>), "<SHA>">>,
    <<Cat(<<WordB, HexN(64), WordB>>), "<SHA256>">>,
    <<Cat(<<WordB, Rep(Cat(<<Rep(Set(Digit), 1, 3), Lit(".")>>), 3, 3),
            Rep(Set(Digit), 1, 3), WordB>>), "<IP>">>,
    <<Cat(<<WordB, Rep(Cat(<<Rep(Set(HexCh), 1, 4), Lit(":")>>), 7, 7),
            Rep(Set(HexCh), 1, 4), WordB>>), "<IPv6>">>,
    <<Cat(<<Lit("http"), Opt(Lit("s")), Lit("://"),
            Plus(NSet(SpaceCh \cup {"<", ">", "\"", "'"}))>>), "<URL>">>,
    <<Cat(<<Lit("/"), Plus(Set(WordCh \cup {"-", ".", "/"})),
            Opt(Cat(<<Lit("."), Plus(Set(WordCh))>>))>>), "<PATH>">>,
    <<Cat(<<WordB, Plus(Set(WordCh \cup {".", "+", "-"})), Lit("@"),
            Plus(Set(WordCh \cup {".", "-"})), Lit("."), Plus(Set(WordCh)),
            WordB>>), "<EMAIL>">>,
    <<Cat(<<DigN(4), Lit("-"), DigN(2), Lit("-"), DigN(2), Lit("T"), DigN(2),
            Lit(":"), DigN(2), Lit(":"), DigN(2),
            Opt(Cat(<<Lit("."), Plus(Set(Digit))>>)),
            Opt(Alt(<<Lit("Z"),
                      Cat(<<Set({"+", "-"}), DigN(2), Opt(Lit(":")), DigN(2)>>)>>))>>),
      "<TIMESTAMP>">>,
    <<Cat(<<DigN(4), Lit("-"), DigN(2), Lit("-"), DigN(2), Plus(Set(SpaceCh)),
            DigN(2), Lit(":"), DigN(2), Lit(":"), DigN(2),
            Opt(Cat(<<Set({",", "."}), Plus(Set(Digit))>>))>>), "<TIMESTAMP>">>,
    <<Cat(<<DigN(2), Lit("/"), Rep(Set(WordCh), 3, 3), Lit("/"), DigN(4), Lit(":"),
            DigN(2), Lit(":"), DigN(2), Lit(":"), DigN(2)>>), "<TIMESTAMP>">>,
    <<Cat(<<Plus(Set(Digit)), Opt(Cat(<<Lit("."), Plus(Set(Digit))>>)),
            Alt(<<Lit("ms"), Lit("s"), Lit("m"), Lit("h"), Lit("ns"), Lit("µs")>>)>>),
      "<DURATION>">>,
    <<Cat(<<WordB, Lit("0x"), Plus(Set(HexCh)), WordB>>), "<HEX>">>,
    <<Cat(<<WordB, Rep(Set(Digit), 6, -1), WordB>>), "<ID>">>,
    <<Cat(<<Behind(Cat(<<Lit("port"), Set(SpaceCh)>>), 5), Plus(Set(Digit))>>),
      "<PORT>">>,
    <<Cat(<<Behind(Cat(<<Lit(":"), Set(SpaceCh)>>), 2), Plus(Set(Digit)),
            Ahead(Alt(<<Set(SpaceCh), Eol, Lit(",")>>))>>), "<NUM>">>,
    <<Cat(<<Behind(Lit("="), 1), Plus(Set(Digit))>>), "<NUM>">>,
    <<Cat(<<WordB, Rep(Set(AlnumCh), 20, -1), WordB>>), "<REQUEST_ID>">> >>

\* ERROR_KEYWORDS
ERROR_KEYWORDS ==
    {"error", "exception", "fail", "fatal", "panic", "crash", "traceback",
     "timeout", "refused", "denied", "unauthorized", "forbidden", "not found",
     "null", "undefined", "invalid", "cannot", "unable", "could not", "failed to"}

\* the loop "for pattern, placeholder in VARIABLE_PATTERNS" from rule k on
RECURSIVE ApplyPatterns(_, _)
ApplyPatterns(s, k) ==
    IF k > Len(VARIABLE_PATTERNS) THEN s
    ELSE Only({ApplyPatterns(t, k + 1) :
                 t \in {ReSub(VARIABLE_PATTERNS[k][1], VARIABLE_PATTERNS[k][2], s)}})

\* r'(<\w+>)(\s*\1)+' at position p of s: <<end of group 1, end of the match>>,
\* <<0, 0>> when it does not match there
PlaceholderRunAt(s, p) ==
    LET e1 == MatchK(<<Lit("<"), Plus(Set(WordCh)), Lit(">")>>, s, p)
        group == SubSeq(s, p, e1 - 1)
        e2 == IF e1 = 0 THEN 0
              ELSE MatchK(<<Plus(Cat(<<Star(Set(SpaceCh)), Lit(group)>>))>>, s, e1)
    IN IF e2 = 0 THEN <<0, 0>> ELSE <<e1, e2>>

\* re.sub(r'(<\w+>)(\s*\1)+', r'\1', s): a placeholder followed by repeats of
\* itself, each after optional whitespace, is replaced by the placeholder
RECURSIVE CollapsePlaceholdersFrom(_, _)
CollapsePlaceholdersFrom(s, from) ==
    LET hits == {p \in from..Len(s) : PlaceholderRunAt(s, p)[2] # 0}
    IN IF hits = {} THEN SubSeq(s, from, Len(s))
       ELSE Only({SubSeq(s, from, m[1] - 1) \o SubSeq(s, m[1], m[2] - 1)
                      \o CollapsePlaceholdersFrom(s, m[3]) :
                  m \in {<<MinOf(hits)>> \o PlaceholderRunAt(s, MinOf(hits))}})
CollapsePlaceholders(s) == CollapsePlaceholdersFrom(s, 1)

\* re.sub(r'\s+', ' ', s).strip()
CollapseWhitespace(s) == Only({Strip(t) : t \in {ReSub(Plus(Set(SpaceCh)), " ", s)}})

\* LogNormalizer.normalize_message
normalize_message(m) ==
    Only({CollapseWhitespace(c) :
            c \in {CollapsePlaceholders(a) : a \in {ApplyPatterns(m, 1)}}})

\* any(kw in message_lower for kw in ERROR_KEYWORDS), message_lower lowered once
HasErrorKeyword(msg) ==
    \E message_lower \in {StrLower(msg)} :
        \E kw \in ERROR_KEYWORDS : Contains(message_lower, kw)

\* is_high_signal without the test of the configured minimum severity
is_high_signal_any_warn(entry, minLevel) ==
    \/ entry.level \in {"ERROR", "FATAL", "WARN"}
    \/ Truthy(entry.exception)
    \/ \E lowered \in {StrLower(entry.message)} :
           \E kw \in ERROR_KEYWORDS : Contains(lowered, kw)

\* LogNormalizer.is_high_signal
is_high_signal(entry, minLevel) ==
    IF entry.level \in {"ERROR", "FATAL"} THEN TRUE
    ELSE IF has_exception(entry) THEN TRUE
    ELSE IF HasErrorKeyword(entry.message) THEN TRUE
    ELSE IF entry.level = "WARN" /\ LevelValue(minLevel) <= LevelValue("WARN") THEN TRUE
    ELSE FALSE

\* the position of the template with key in _templates, 0 when it has none
TemplateIndex(tpls, key) ==
    IF \E k \in 1..Len(tpls) : tpls[k].template = key
    THEN CHOOSE k \in 1..Len(tpls) : tpls[k].template = key
    ELSE 0

\* the body of the loop of process_entries for a high-signal entry, after
\* "template_key = self.normalize_message(entry.message)"
UpdateTemplatesAt(tpls, entry, template_key) ==
    LET created == IF TemplateIndex(tpls, template_key) = 0
                   THEN Append(tpls, ErrorTemplate(template_key, entry.line_number))
                   ELSE tpls
        k == TemplateIndex(created, template_key)
    IN [created EXCEPT ![k] = add_occurrence(@, entry.message, entry.line_number)]

\* "Create/update template"
UpdateTemplates(tpls, entry) ==
    Only({UpdateTemplatesAt(tpls, entry, template_key) :
            template_key \in {normalize_message(entry.message)}})

-----------------------------------------------------------------------------
(* app/parsing.py: json.loads, str() and json.dumps on what it decodes.     *)
(* A decoded value is [k, s, items]: k is its kind ("str", "int", "float", *)
(* "true", "false", "null", "arr", "obj"), s the text of a string or of a  *)
(* number, items the elements of an array or the <<key, value>> pairs of a *)
(* dict in insertion order.  Input lines hold none of: the escapes \b and  *)
(* \u, numbers with a fraction or an exponent.                             *)

JVal(k, s, items) == [k |-> k, s |-> s, items |-> items]
JFail == [ok |-> FALSE, v |-> <<>>, i |-> 0]
\* the decoder raises RecursionError, which is no JSONDecodeError
JRaise == [ok |-> FALSE, v |-> <<>>, i |-> -1]
JRaised(r) == ~r.ok /\ r.i = -1
JOk(v, i) == [ok |-> TRUE, v |-> v, i |-> i]

\* json.decoder.WHITESPACE.match(s, i).end()
SkipWs(s, i) == i + RunLen(Set({" ", "\t", "\n", "\r"}), s, i, -1)

\* json.decoder.scanstring(s, i) in strict mode, i the position after the
\* opening quote; acc is the text decoded so far
RECURSIVE ScanString(_, _, _)
ScanString(s, i, acc) ==
    (LET Let_j(j) ==
        LET text == acc \o SubSeq(s, i, j - 1)
            e == Ch(s, j + 1)
        IN IF j > Len(s) THEN JFail
           ELSE IF Ch(s, j) = "\"" THEN JOk(text, j + 1)
           ELSE IF Ch(s, j) # "\\" \/ j + 1 > Len(s) THEN JFail
           ELSE CASE e \in {"\"", "\\", "/"} -> ScanString(s, j + 2, text \o e)
                  [] e = "n" -> ScanString(s, j + 2, text \o "\n")
                  [] e = "t" -> ScanString(s, j + 2, text \o "\t")
                  [] e = "r" -> ScanString(s, j + 2, text \o "\r")
                  [] e = "f" -> ScanString(s, j + 2, text \o "\f")
                  [] OTHER -> JFail
     IN Let_j(i + RunLen(NSet({"\"", "\\", "\t", "\n", "\r", "\f"}), s, i, -1)))

\* json.scanner.NUMBER_RE: the integer part, and the whole number
JsonIntRe ==
    Cat(<<Opt(Lit("-")),
          Alt(<<Lit("0"),
                Cat(<<Set(Digit \ {"0"}), Star(Set(Digit))>>)>>)>>)
JsonNumberRe ==
    Cat(<<JsonIntRe, Opt(Cat(<<Lit("."), Plus(Set(Digit))>>)),
          Opt(Cat(<<Set({"e", "E"}), Opt(Set({"-", "+"})), Plus(Set(Digit))>>))>>)

\* a number, NaN, Infinity or -Infinity at position i
JsonNumber(s, i) ==
    (LET Let_ends(ends) ==
        LET text == SubSeq(s, i, ends[2] - 1)
        IN IF ends[1] # 0
           THEN IF ends[2] = ends[1]
                THEN JOk(JVal("int", IF text = "-0" THEN "0" ELSE text, <<>>), ends[2])
                ELSE JOk(JVal("float", text, <<>>), ends[2])
           ELSE IF StartsWithAt(s, i, "NaN") THEN JOk(JVal("float", "nan", <<>>), i + 3)
           ELSE IF StartsWithAt(s, i, "Infinity")
                THEN JOk(JVal("float", "inf", <<>>), i + 8)
           ELSE IF StartsWithAt(s, i, "-Infinity")
                THEN JOk(JVal("float", "-inf", <<>>), i + 9)
           ELSE JFail
     IN Let_ends(<<MatchK(<<JsonIntRe>>, s, i), MatchK(<<JsonNumberRe>>, s, i)>>))

\* d[key] = value on a dict kept as its pairs in insertion order
DictSet(items, key, value) ==
    IF \E k \in 1..Len(items) : items[k][1] = key
    THEN [items EXCEPT ![CHOOSE k \in 1..Len(items) : items[k][1] = key] = <<key, value>>]
    ELSE Append(items, <<key, value>>)

\* the nesting depth at which the scanner's recursion guard
\* (Py_EnterRecursiveCall, on every "{" and "[") raises RecursionError: the
\* interpreter's recursion limit, about 1000 levels, scaled to the lines of the
\* model
MaxJsonDepth == 4

\* json.scanner.py_make_scanner._scan_once, JSONObject and JSONArray; depth is
\* the number of objects and arrays the value is nested in
RECURSIVE JsonValue(_, _, _)
RECURSIVE JsonMembers(_, _, _, _)
RECURSIVE JsonElements(_, _, _, _)
JsonValue(s, i, depth) ==
    IF i > Len(s) THEN JFail
    ELSE LET c == Ch(s, i)
         IN CASE c = "\"" ->
                   (LET Let_r(r) ==
                       IF r.ok THEN JOk(JVal("str", r.v, <<>>), r.i) ELSE JFail
                    IN Let_r(ScanString(s, i + 1, "")))
              [] c = "{" ->
                   (LET Let_j(j) ==
                       IF depth >= MaxJsonDepth THEN JRaise
                       ELSE IF j <= Len(s) /\ Ch(s, j) = "}"
                       THEN JOk(JVal("obj", "", <<>>), j + 1)
                       ELSE JsonMembers(s, j, <<>>, depth + 1)
                    IN Let_j(SkipWs(s, i + 1)))
              [] c = "[" ->
                   (LET Let_j(j) ==
                       IF depth >= MaxJsonDepth THEN JRaise
                       ELSE IF j <= Len(s) /\ Ch(s, j) = "]"
                       THEN JOk(JVal("arr", "", <<>>), j + 1)
                       ELSE JsonElements(s, j, <<>>, depth + 1)
                    IN Let_j(SkipWs(s, i + 1)))
              [] c = "n" /\ StartsWithAt(s, i, "null") -> JOk(JVal("null", "", <<>>), i + 4)
              [] c = "t" /\ StartsWithAt(s, i, "true") -> JOk(JVal("true", "", <<>>), i + 4)
              [] c = "f" /\ StartsWithAt(s, i, "false") -> JOk(JVal("false", "", <<>>), i + 5)
              [] OTHER -> JsonNumber(s, i)
JsonMembers(s, i, acc, depth) ==
    IF i > Len(s) \/ Ch(s, i) # "\"" THEN JFail
    ELSE (LET Let_key(key) ==
        IF ~key.ok THEN JFail
        ELSE (LET Let_colon(colon) ==
            IF colon > Len(s) \/ Ch(s, colon) # ":" THEN JFail
            ELSE (LET Let_value(value) ==
                IF ~value.ok THEN value
                ELSE (LET Let_after(after) ==
                    IF after > Len(s) THEN JFail
                    ELSE IF Ch(s, after) = "}"
                    THEN JOk(JVal("obj", "", DictSet(acc, key.v, value.v)), after + 1)
                    ELSE IF Ch(s, after) = ","
                    THEN JsonMembers(s, SkipWs(s, after + 1),
                                     DictSet(acc, key.v, value.v), depth)
                    ELSE JFail
                      IN Let_after(SkipWs(s, value.i)))
                  IN Let_value(JsonValue(s, SkipWs(s, colon + 1), depth)))
              IN Let_colon(SkipWs(s, key.i)))
          IN Let_key(ScanString(s, i + 1, "")))
JsonElements(s, i, acc, depth) ==
    (LET Let_value(value) ==
        IF ~value.ok THEN value
        ELSE (LET Let_after(after) ==
            IF after > Len(s) THEN JFail
            ELSE IF Ch(s, after) = "]"
            THEN JOk(JVal("arr", "", Append(acc, value.v)), after + 1)
            ELSE IF Ch(s, after) = ","
            THEN JsonElements(s, SkipWs(s, after + 1), Append(acc, value.v), depth)
            ELSE JFail
              IN Let_after(SkipWs(s, value.i)))
     IN Let_value(JsonValue(s, i, depth)))

\* json.loads(s): the decoded value, JFail for a JSONDecodeError, JRaise for
\* a RecursionError
json_loads(s) ==
    (LET Let_r(r) ==
        IF ~r.ok THEN r
        ELSE IF SkipWs(s, r.i) = Len(s) + 1 THEN r ELSE JFail
     IN Let_r(JsonValue(s, SkipWs(s, 1), 0)))

\* bool(v)
JTruthy(v) ==
    CASE v.k = "str" -> v.s # ""
      [] v.k = "int" -> v.s # "0"
      [] v.k = "float" ->
            LET mantissa == RunLen(NSet({"e", "E"}), v.s, 1, -1)
            IN \E k \in 1..mantissa : Ch(v.s, k) \in (Digit \ {"0"}) \cup {"n"}
      [] v.k = "true" -> TRUE
      [] v.k \in {"arr", "obj"} -> v.items # <<>>
      [] OTHER -> FALSE

\* s with each character c replaced by esc[c] where esc has one
RECURSIVE Escape(_, _)
Escape(s, esc) ==
    IF Len(s) = 0 THEN ""
    ELSE IF Len(s) = 1 THEN (IF s \in DOMAIN esc THEN esc[s] ELSE s)
    ELSE Escape(SubSeq(s, 1, Len(s) \div 2), esc)
             \o Escape(SubSeq(s, Len(s) \div 2 + 1, Len(s)), esc)

ReprEscapes ==
    [c \in {"\\", "\n", "\t", "\r", "\f"} |->
        CASE c = "\\" -> "\\\\" [] c = "\n" -> "\\n" [] c = "\t" -> "\\t"
          [] c = "\r" -> "\\r" [] c = "\f" -> "\\x0c"]
DumpsEscapes ==
    [c \in {"\\", "\"", "\n", "\t", "\r", "\f"} |->
        CASE c = "\\" -> "\\\\" [] c = "\"" -> "\\\"" [] c = "\n" -> "\\n"
          [] c = "\t" -> "\\t" [] c = "\r" -> "\\r" [] c = "\f" -> "\\f"]

\* repr(s) of a str: double quotes only when s has a ' and no "
ReprStr(s) ==
    IF Contains(s, "'") /\ ~Contains(s, "\"")
    THEN "\"" \o Escape(s, ReprEscapes) \o "\""
    ELSE "'" \o Escape(s, ReprEscapes @@ ("'" :> "\\'")) \o "'"

\* repr(v) and json.dumps(v); dumps = TRUE is json.dumps
RECURSIVE Render(_, _)
RECURSIVE RenderItems(_, _, _)
Render(v, dumps) ==
    CASE v.k = "str" ->
            IF dumps THEN "\"" \o Escape(v.s, DumpsEscapes) \o "\"" ELSE ReprStr(v.s)
      [] v.k = "int" -> v.s
      [] v.k = "float" ->
            IF ~dumps THEN v.s
            ELSE IF v.s = "nan" THEN "NaN"
            ELSE IF v.s = "inf" THEN "Infinity"
            ELSE IF v.s = "-inf" THEN "-Infinity"
            ELSE v.s
      [] v.k = "true" -> IF dumps THEN "true" ELSE "True"
      [] v.k = "false" -> IF dumps THEN "false" ELSE "False"
      [] v.k = "null" -> IF dumps THEN "null" ELSE "None"
      [] v.k = "arr" -> "[" \o RenderItems(v.items, dumps, FALSE) \o "]"
      [] v.k = "obj" -> "{" \o RenderItems(v.items, dumps, TRUE) \o "}"
RenderItems(items, dumps, pairs) ==
    IF Len(items) = 0 THEN ""
    ELSE (IF pairs
          THEN Render(JVal("str", items[1][1], <<>>), dumps) \o ": "
                   \o Render(items[1][2], dumps)
          ELSE Render(items[1], dumps))
         \o (IF Len(items) = 1 THEN "" ELSE ", " \o RenderItems(Tail(items), dumps, pairs))

\* str(v)
PyStr(v) == IF v.k = "str" THEN v.s ELSE Render(v, FALSE)

\* data.get(key): None (null) when the dict has no such key
DictGet(data, key) ==
    (LET Let_at(at) ==
        IF at = {} THEN JVal("null", "", <<>>) ELSE data.items[MinOf(at)][2]
     IN Let_at({k \in 1..Len(data.items) : data.items[k][1] = key}))

\* data.get(keys[1]) or data.get(keys[2]) or ... or default
RECURSIVE GetFirst(_, _, _)
GetFirst(data, keys, default) ==
    IF Len(keys) = 0 THEN default
    ELSE (LET Let_value(value) ==
             IF JTruthy(value) THEN value ELSE GetFirst(data, Tail(keys), default)
          IN Let_value(DictGet(data, Head(keys))))

\* str(v) if v else None
StrOrNone(v) == IF JTruthy(v) THEN Some(PyStr(v)) ELSE None

-----------------------------------------------------------------------------
(* app/parsing.py: the patterns and LogParser *)

\* "." of a pattern compiled without re.DOTALL
Dot == NSet({"\n"})

\* TIMESTAMP_PATTERNS
TIMESTAMP_PATTERNS == <<
    Cat(<<DigN(4), Lit("-"), DigN(2), Lit("-"), DigN(2), Lit("T"), DigN(2),
          Lit(":"), DigN(2), Lit(":"), DigN(2),
          Opt(Cat(<<Lit("."), Plus(Set(Digit))>>)),
          Opt(Alt(<<Lit("Z"),
                    Cat(<<Set({"+", "-"}), DigN(2), Opt(Lit(":")), DigN(2)>>)>>))>>),
    Cat(<<DigN(4), Lit("-"), DigN(2), Lit("-"), DigN(2), Plus(Set(SpaceCh)),
          DigN(2), Lit(":"), DigN(2), Lit(":"), DigN(2), Set({",", "."}), DigN(3)>>),
    Cat(<<DigN(4), Lit("/"), DigN(2), Lit("/"), DigN(2), Plus(Set(SpaceCh)),
          DigN(2), Lit(":"), DigN(2), Lit(":"), DigN(2)>>),
    Cat(<<Lit("["), Rep(Set(Digit), 10, 13), Lit("]")>>),
    Cat(<<Lit("["), DigN(4), Lit("-"), DigN(2), Lit("-"), DigN(2), Plus(Set(SpaceCh)),
          DigN(2), Lit(":"), DigN(2), Lit(":"), DigN(2),
          Opt(Cat(<<Set({",", "."}), Plus(Set(Digit))>>)), Lit("]")>>) >>

\* TIMESTAMP_REGEX: '|'.join(f'({p})' for p in TIMESTAMP_PATTERNS)
TIMESTAMP_REGEX == Alt(TIMESTAMP_PATTERNS)

\* LOG_LEVEL_PATTERN
LOG_LEVEL_PATTERN ==
    Cat(<<WordB,
          Alt(<<LitCI("TRACE"), LitCI("DEBUG"), LitCI("INFO"), LitCI("INFORMATION"),
                LitCI("WARN"), LitCI("WARNING"), LitCI("ERROR"), LitCI("ERR"),
                LitCI("FATAL"), LitCI("CRITICAL"), LitCI("CRIT"), LitCI("SEVERE"),
                LitCI("PANIC")>>),
          WordB>>)

\* EXCEPTION_PATTERNS
EXCEPTION_PATTERNS == <<
    Cat(<<Bol, Star(Set(SpaceCh)), LitCI("Traceback (most recent call last):")>>),
    Cat(<<Bol, Star(Set(SpaceCh)), Lit("at"), Plus(Set(SpaceCh)),
          Plus(Set(WordCh \cup {".", "$"})), Lit("("), Plus(Set(WordCh)), Lit("."),
          Plus(Set(WordCh)), Lit(":"), Plus(Set(Digit)), Lit(")")>>),
    Cat(<<Bol, Star(Set(SpaceCh)), Lit("File \""), Star(Dot), Lit("\", line "),
          Plus(Set(Digit))>>),
    Cat(<<Bol, Plus(Set(SpaceCh)), Lit("at"), Plus(Set(SpaceCh)), Star(Dot), Lit("("),
          Star(Dot), Lit(":"), Plus(Set(Digit)), Lit(":"), Plus(Set(Digit)), Lit(")")>>),
    Alt(<<LitCI("Exception"), LitCI("Error"), LitCI("Throwable")>>) >>

\* CONTINUATION_PATTERNS
CONTINUATION_PATTERNS == <<
    Cat(<<Bol, Plus(Set(SpaceCh)), Lit("at"), Plus(Set(SpaceCh))>>),
    Cat(<<Bol, Plus(Set(SpaceCh)), Lit("File"), Plus(Set(SpaceCh)), Lit("\"")>>),
    Cat(<<Bol, Plus(Set(SpaceCh)), Plus(Set(WordCh)), Lit("Error:")>>),
    Cat(<<Bol, Rep(Set(SpaceCh), 4, -1)>>),
    Cat(<<Bol, Plus(Set({"\t"}))>>),
    Cat(<<Bol, Star(Set(SpaceCh)), Lit("..."), Star(Set(SpaceCh)), Plus(Set(Digit)),
          Plus(Set(SpaceCh)), Lit("more")>>),
    Cat(<<Bol, Star(Set(SpaceCh)), Lit("Caused by:")>>) >>

\* LogLevel.from_string
from_string(level_str) ==
    IF level_str = "" THEN "UNKNOWN"
    ELSE LET upper == Strip(StrUpper(level_str))
         IN CASE upper \in {"TRACE", "DEBUG", "WARN", "ERROR", "FATAL"} -> upper
              [] upper \in {"INFO", "INFORMATION"} -> "INFO"
              [] upper = "WARNING" -> "WARN"
              [] upper = "ERR" -> "ERROR"
              [] upper \in {"CRITICAL", "CRIT", "SEVERE", "PANIC"} -> "FATAL"
              [] OTHER -> "UNKNOWN"

\* "for pattern in EXCEPTION_PATTERNS: if pattern.search(line)": some pattern hits
HasExceptionPattern(line) ==
    \E k \in 1..Len(EXCEPTION_PATTERNS) : ReFound(EXCEPTION_PATTERNS[k], line)

\* LogParser._parse_json_line once "data" is a dict: the entry it returns
JsonEntry(line, line_number, data) ==
    LET level_str == GetFirst(data, <<"level", "severity", "log_level", "lvl">>,
                              JVal("str", "", <<>>))
        msg == GetFirst(data, <<"message", "msg", "text", "@message">>,
                        JVal("str", Render(data, FALSE), <<>>))
        timestamp == GetFirst(data, <<"timestamp", "time", "@timestamp", "ts">>,
                              JVal("null", "", <<>>))
        logger == GetFirst(data, <<"logger", "name", "source">>, JVal("null", "", <<>>))
        exception ==
            (LET Let_found(found) ==
                                IF found.k = "obj"
                                THEN JVal("str", Render(found, TRUE), <<>>)
                                ELSE found
             IN Let_found(GetFirst(data,
                     <<"exception", "error", "stack_trace", "stacktrace", "err">>,
                     JVal("null", "", <<>>))))
    IN [ParsedLogEntry(line, line_number, from_string(PyStr(level_str)), PyStr(msg),
                       StrOrNone(timestamp), StrOrNone(exception))
           EXCEPT !.logger = StrOrNone(logger)]

\* LogParser._parse_json_line raises: json.loads raises an exception that is
\* not the json.JSONDecodeError of its except clause
JsonLineRaises(line) == JRaised(json_loads(line))

\* LogParser._parse_json_line when it returns: Some(entry), or None
_parse_json_line(line, line_number) ==
    (LET Let_r(r) ==
        IF ~r.ok THEN None
        ELSE IF r.v.k # "obj" THEN None
        ELSE Some(JsonEntry(line, line_number, r.v))
     IN Let_r(json_loads(line)))

\* LogParser._parse_plain_line
_parse_plain_line(line, line_number) ==
    (LET Let_m(m) ==
        LET timestamp == IF m[1][1] # 0 THEN Some(SubSeq(line, m[1][1], m[1][2] - 1))
                         ELSE None
            matched == m[2][1] # 0
            level == IF matched THEN from_string(SubSeq(line, m[2][1], m[2][2] - 1))
                     ELSE "UNKNOWN"
            parts == Strip(SubSeq(line, m[2][2], Len(line)))
            msg == IF matched /\ parts # ""
                   THEN ReSub(Cat(<<Bol, Plus(Set(SpaceCh \cup {"-", ":", "]"}))>>), "",
                              parts)
                   ELSE line
        IN ParsedLogEntry(line, line_number,
                          IF m[3] /\ level = "UNKNOWN" THEN "ERROR" ELSE level,
                          msg, timestamp, IF m[3] THEN Some(line) ELSE None)
     IN Let_m(<<ReSearch(TIMESTAMP_REGEX, line), ReSearch(LOG_LEVEL_PATTERN, line),
                HasExceptionPattern(line)>>))

\* LogParser._parse_single_line
_parse_single_line(line, line_number) ==
    (LET Let_stripped(stripped) ==
        (LET Let_entry(entry) ==
                 IF entry # None THEN entry[1] ELSE _parse_plain_line(line, line_number)
         IN Let_entry(IF StartsWith(stripped, "{")
                      THEN _parse_json_line(stripped, line_number)
                      ELSE None))
     IN Let_stripped(Strip(line)))

\* LogParser._parse_single_line raises
SingleLineRaises(line) ==
    (LET Let_stripped(stripped) ==
        StartsWith(stripped, "{") /\ JsonLineRaises(stripped)
     IN Let_stripped(Strip(line)))

\* LogParser._is_continuation_line
_is_continuation_line(line) ==
    IF \E k \in 1..Len(CONTINUATION_PATTERNS) : ReMatch(CONTINUATION_PATTERNS[k], line) # 0
    THEN TRUE
    ELSE (LET Let_stripped(stripped) ==
             /\ ReMatch(TIMESTAMP_REGEX, stripped) = 0
             /\ stripped # ""
             /\ ReMatch(LOG_LEVEL_PATTERN,
                        SubSeq(stripped, 1, IF Len(stripped) < 20 THEN Len(stripped) ELSE 20))
                    = 0
             /\ (StartsWith(line, " ") \/ StartsWith(line, "\t"))
          IN Let_stripped(Strip(line)))

\* _might_have_continuation that holds every entry
_might_have_continuation_any(entry) == TRUE

\* LogParser._might_have_continuation
_might_have_continuation(entry) ==
    \/ has_exception(entry)
    \/ entry.level \in {"ERROR", "FATAL"}
    \/ (LET Let_message_lower(message_lower) ==
           \E kw \in {"exception", "error", "traceback", "stack", "caused by"} :
               Contains(message_lower, kw)
        IN Let_message_lower(StrLower(entry.message)))

\* LogParser._append_to_multiline applied to the pending entry
_append_to_multiline(pending, line) ==
    [pending EXCEPT
       !.is_multiline = TRUE,
       !.raw_line = @ \o "\n" \o line,
       !.exception = IF Truthy(@) THEN Some(@[1] \o "\n" \o line)
                     ELSE IF HasExceptionPattern(line) THEN Some(line)
                     ELSE @]

\* one iteration of the loop of parse_lines for line number line_number, from the
\* pending entry (None or Some(entry)): <<the pending entry after it, the entries
\* it yields>>
ParseLineStep(pending, line, line_number) ==
    IF Strip(line) = "" THEN <<pending, <<>>>>
    ELSE IF _is_continuation_line(line) /\ pending # None
    THEN <<Some(_append_to_multiline(pending[1], line)), <<>>>>
    ELSE (LET Let_entry(entry) ==
             IF _might_have_continuation(entry)
             THEN <<Some(entry), pending>>
             ELSE <<None, Append(pending, entry)>>
          IN Let_entry(_parse_single_line(line, line_number)))

\* the iteration of the loop of parse_lines for a line raises, from the
\* pending entry: the line is parsed, and _parse_single_line raises
ParseLineRaises(pending, line) ==
    /\ Strip(line) # ""
    /\ ~(_is_continuation_line(line) /\ pending # None)
    /\ SingleLineRaises(line)

\* list(parse_lines(lines)) from line k on, with the entries yielded so far
RECURSIVE ParseFrom(_, _, _, _)
ParseFrom(input, k, pending, yielded) ==
    IF k > Len(input) THEN yielded \o pending
    ELSE (LET Let_step(step) ==
             ParseFrom(input, k + 1, step[1], yielded \o step[2])
          IN Let_step(ParseLineStep(pending, input[k], k)))

\* list(LogParser().parse_lines(iter(input))), for lines none of which raises
parse_lines(input) == ParseFrom(input, 1, None, <<>>)
-----------------------------------------------------------------------------
(* app/clustering.py *)

LOG_STOP_WORDS == {
    "the", "a", "an", "is", "are", "was", "were", "be", "been", "being",
    "have", "has", "had", "do", "does", "did", "will", "would", "could",
    "should", "may", "might", "must", "shall", "can", "need", "dare",
    "ought", "used", "to", "of", "in", "for", "on", "with", "at", "by",
    "from", "as", "into", "through", "during", "before", "after", "above",
    "below", "between", "under", "again", "further", "then", "once",
    "here", "there", "when", "where", "why", "how", "all", "each", "few",
    "more", "most", "other", "some", "such", "no", "nor", "not", "only",
    "own", "same", "so", "than", "too", "very", "just", "and", "but",
    "if", "or", "because", "until", "while", "this", "that", "these",
    "those", "it", "its", "log", "logging", "logger", "timestamp", "time",
    "date", "level", "message", "msg", "info", "debug", "warn", "warning"}

\* ErrorClusterer.min_samples_per_cluster (the default, which analyze() keeps)
min_samples_per_cluster == 2

\* r'\b[a-zA-Z_][a-zA-Z0-9_]*\b': token_pattern of the vectorizer, and the
\* pattern of _extract_keywords_simple
TOKEN_PATTERN ==
    Cat(<<WordB, Set(LowerCh \cup UpperCh \cup {"_"}), Star(Set(AlnumCh \cup {"_"})),
          WordB>>)

\* pattern.findall(s) from position from, for a pattern without groups that
\* matches no empty string
RECURSIVE ReFindAllFrom(_, _, _)
ReFindAllFrom(r, s, from) ==
    Only({IF m[1] = 0 THEN <<>>
          ELSE <<SubSeq(s, m[1], m[2] - 1)>> \o ReFindAllFrom(r, s, m[2]) :
          m \in {ReSearchFrom(r, s, from)}})

\* [w for w in words if w not in LOG_STOP_WORDS and len(w) >= minLen]
RECURSIVE WithoutStopWords(_, _)
WithoutStopWords(words, minLen) ==
    IF words = <<>> THEN <<>>
    ELSE (IF Head(words) \notin LOG_STOP_WORDS /\ Len(Head(words)) >= minLen
          THEN <<Head(words)>> ELSE <<>>) \o WithoutStopWords(Tail(words), minLen)

\* the elements of a set of integers in increasing order
Ascending(S) ==
    [p \in 1..Cardinality(S) |-> CHOOSE k \in S : Cardinality({j \in S : j < k}) = p - 1]

\* seq[:n]
Top(seq, n) == SubSeq(seq, 1, MinOf({n, Len(seq)}))

\* items in their given order, for sorted(items, key=..., reverse=True)
Unsorted(items, keys) == items

\* sorted(items, key=..., reverse=True) and list.sort(key=..., reverse=True),
\* given the key of each item: descending, equal keys keep their order
SortedDesc(items, keys) ==
    [p \in 1..Len(items) |->
        items[CHOOSE i \in 1..Len(items) :
                  Cardinality({j \in 1..Len(items) :
                                   keys[j] > keys[i] \/ (keys[j] = keys[i] /\ j < i)})
                      = p - 1]]

\* sum(t.count for t in templates)
RECURSIVE SumCounts(_)
SumCounts(tpls) ==
    IF Len(tpls) = 0 THEN 0 ELSE Head(tpls).count + SumCounts(Tail(tpls))

\* a cluster whose total_count is the number of its member templates
ErrorClusterCountingMembers(cluster_id, tpls, keywords, representative_sample) ==
    [cluster_id |-> cluster_id, templates |-> tpls, total_count |-> Len(tpls),
     keywords |-> keywords, representative_sample |-> representative_sample]

\* ErrorCluster(...)
ErrorCluster(cluster_id, tpls, keywords, representative_sample) ==
    [cluster_id |-> cluster_id, templates |-> tpls, total_count |-> SumCounts(tpls),
     keywords |-> keywords, representative_sample |-> representative_sample]

\* ErrorClusterer._prepare_text
_prepare_text(template) ==
    CollapseWhitespace(
        ReSub(Cat(<<Lit("<"), Plus(Set(UpperCh \cup {"_"})), Lit(">")>>), "", template))

\* the terms the vectorizer's analyzer makes of a text: lower case, tokens,
\* stop words removed, then the 1-grams and 2-grams (ngram_range=(1, 2))
DocTerms(text) ==
    Only({{toks[k] : k \in 1..Len(toks)}
              \cup {toks[k] \o " " \o toks[k + 1] : k \in 1..(Len(toks) - 1)} :
          toks \in {WithoutStopWords(ReFindAllFrom(TOKEN_PATTERN, StrLower(text), 1), 1)}})

\* texts = [self._prepare_text(t.template) for t in template_list], as the
\* terms of each text
TemplateDocs(tpls) == [k \in 1..Len(tpls) |-> DocTerms(_prepare_text(tpls[k].template))]

\* vectorizer.fit_transform(texts): the feature names it keeps with min_df=1
\* and max_df=0.95 (a term is dropped when more than 0.95 * n_docs texts have
\* it); with no feature left it raises ValueError.  max_features=1000 is more
\* than the terms of the inputs.
Vocabulary(docs) ==
    {t \in UNION {docs[k] : k \in 1..Len(docs)} :
        100 * Cardinality({k \in 1..Len(docs) : t \in docs[k]}) <= 95 * Len(docs)}

\* the orders a finite set can be listed in
RECURSIVE Perms(_)
Perms(S) ==
    IF S = {} THEN {<<>>}
    ELSE UNION {{<<x>> \o p : p \in Perms(S \ {x})} : x \in S}

\* ErrorClusterer._extract_cluster_keywords: the lists it can return.  The
\* features with a positive average score are those some member text has; they
\* come in descending order of the average TF-IDF score, a floating-point
\* value that is left open: any order, cut to the first ten.
_extract_cluster_keywords(indices, docs, feature_names) ==
    IF feature_names = {} \/ indices = {} THEN {<<>>}
    ELSE {Top(p, 10) :
            p \in Perms({t \in feature_names : \E i \in indices : t \in docs[i]})}

\* the words of all templates, in order (the argument of word_counts.update)
RECURSIVE TemplateWords(_)
TemplateWords(tpls) ==
    IF tpls = <<>> THEN <<>>
    ELSE WithoutStopWords(
             ReFindAllFrom(TOKEN_PATTERN, StrLower(Head(tpls).template), 1), 3)
             \o TemplateWords(Tail(tpls))

\* [word for word, _ in Counter(words).most_common(n)]
MostCommon(words, n) ==
    LET distinct ==
            Only({[p \in 1..Len(firsts) |-> words[firsts[p]]] :
                  firsts \in {Ascending({k \in 1..Len(words) :
                                            \A j \in 1..(k - 1) : words[j] # words[k]})}})
    IN Top(SortedDesc(distinct,
                      [p \in 1..Len(distinct) |->
                          Cardinality({j \in 1..Len(words) : words[j] = distinct[p]})]),
           n)

\* ErrorClusterer._extract_keywords_simple
_extract_keywords_simple(tpls) == MostCommon(TemplateWords(tpls), 10)

\* ErrorClusterer._create_single_cluster
_create_single_cluster(tpls) ==
    IF tpls = <<>> THEN <<>>
    ELSE <<ErrorCluster(0, tpls, _extract_keywords_simple(tpls), tpls[1].template)>>

\* the templates with a label at least the given one
LabelMembersFrom(tpls, labels, label) ==
    Only({[p \in 1..Len(at) |-> tpls[at[p]]] :
          at \in {Ascending({i \in 1..Len(tpls) : labels[i] >= label})}})

\* clusters_dict[label]: the templates with a label, in their order
LabelMembers(tpls, labels, label) ==
    Only({[p \in 1..Len(at) |-> tpls[at[p]]] :
          at \in {Ascending({i \in 1..Len(tpls) : labels[i] = label})}})

\* max(cluster_templates, key=lambda t: t.count): the first of the largest
MaxByCount(tpls) ==
    tpls[MinOf({k \in 1..Len(tpls) : \A j \in 1..Len(tpls) : tpls[j].count <= tpls[k].count})]

\* ErrorClusterer._build_clusters, keywords[label] being the list that
\* _extract_cluster_keywords returns for the cluster of the label
_build_clusters(tpls, labels, keywords) ==
    LET used == Ascending({labels[i] : i \in 1..Len(tpls)})
        built == [c \in 1..Len(used) |->
                     Only({ErrorCluster(used[c], members, keywords[used[c]],
                                        MaxByCount(members).template) :
                           members \in {LabelMembers(tpls, labels, used[c])}})]
        sorted == SortedDesc(built, [c \in 1..Len(built) |-> built[c].total_count])
    IN [i \in 1..Len(sorted) |-> [sorted[i] EXCEPT !.cluster_id = i - 1]]

\* the keyword lists _build_clusters can get for the labels ls, as functions
\* from label to list
RECURSIVE KeywordsByLabel(_, _, _, _)
KeywordsByLabel(ls, labels, docs, feature_names) ==
    IF ls = {} THEN {<<>>}
    ELSE {[l \in ls |-> IF l = MaxOf(ls) THEN kw ELSE rest[l]] :
            rest \in KeywordsByLabel(ls \ {MaxOf(ls)}, labels, docs, feature_names),
            kw \in _extract_cluster_keywords({i \in 1..Len(labels) : labels[i] = MaxOf(ls)},
                                             docs, feature_names)}

\* n_clusters without the division by min_samples_per_cluster
NClustersNoHalving(n_samples, maxClusters) == MinOf({maxClusters, MaxOf({1, n_samples})})

\* n_clusters = min(self.max_clusters, max(1, n_samples // self.min_samples_per_cluster))
NClusters(n_samples, maxClusters) ==
    MinOf({maxClusters, MaxOf({1, n_samples \div min_samples_per_cluster})})

\* cluster_templates returns self._create_single_cluster(template_list)
SingleClusterCase(tpls, maxClusters) ==
    \/ Len(tpls) < min_samples_per_cluster
    \/ Vocabulary(TemplateDocs(tpls)) = {}
    \/ NClusters(Len(tpls), maxClusters) <= 1

-----------------------------------------------------------------------------
(* app/aggregation.py: the digest of the clusters for the summarization call *)

\* str(n) for n >= 0
RECURSIVE IntToStr(_)
IntToStr(n) ==
    IF n < 10 THEN Ch("0123456789", n + 1)
    ELSE IntToStr(n \div 10) \o Ch("0123456789", (n % 10) + 1)

\* sep.join(parts)
RECURSIVE Join(_, _)
Join(parts, sep) ==
    IF parts = <<>> THEN ""
    ELSE IF Len(parts) = 1 THEN parts[1]
    ELSE parts[1] \o sep \o Join(Tail(parts), sep)

\* the lines of a cluster with the first example message of its first template
ClusterSummaryWithExample(cluster) ==
    <<"Cluster " \o IntToStr(cluster.cluster_id + 1) \o ":",
      "  - Occurrences: " \o IntToStr(cluster.total_count),
      "  - Unique patterns: " \o IntToStr(Len(cluster.templates)),
      "  - Keywords: " \o Join(Top(cluster.keywords, 5), ", "),
      "  - Representative pattern: " \o Join(Top(cluster.templates[1].original_messages, 1), ""),
      "">>

\* prepare_cluster_summary_for_llm: the lines appended for one cluster
ClusterSummary(cluster) ==
    <<"Cluster " \o IntToStr(cluster.cluster_id + 1) \o ":",
      "  - Occurrences: " \o IntToStr(cluster.total_count),
      "  - Unique patterns: " \o IntToStr(Len(cluster.templates)),
      "  - Keywords: " \o Join(Top(cluster.keywords, 5), ", "),
      "  - Representative pattern: " \o Top(cluster.representative_sample, 200),
      "">>

\* the lines of all clusters
RECURSIVE ClusterSummaries(_)
ClusterSummaries(cls) ==
    IF cls = <<>> THEN <<>> ELSE ClusterSummary(Head(cls)) \o ClusterSummaries(Tail(cls))

\* prepare_cluster_summary_for_llm
prepare_cluster_summary_for_llm(cls) ==
    IF cls = <<>> THEN "No error clusters detected."
    ELSE Join(<<"Error Cluster Summary:", "">> \o ClusterSummaries(cls), "\n")

-----------------------------------------------------------------------------
(* app/ingestion.py *)

\* A file is [gzip |-> g, data |-> bytes], bytes being a sequence of 0..255:
\* with g the file holds the gzip compression of data, otherwise it holds
\* data itself, which then is not a gzip stream (it does not start with the
\* gzip magic number).

\* the characters of the codes 32..95 and 97..126
Printable ==
    " !\"#$%&'()*+,-./0123456789:;<=>?@ABCDEFGHIJKLMNOPQRSTUVWXYZ[\\]^_"
PrintableLower == "abcdefghijklmnopqrstuvwxyz{|}~"

\* the character of a code below 128 (tab, newline, carriage return and the
\* printable ones; the inputs hold no other control character and no "`")
AsciiChar(b) ==
    CASE b = 9 -> "\t"
      [] b = 10 -> "\n"
      [] b = 13 -> "\r"
      [] b \in 32..95 -> Ch(Printable, b - 31)
      [] b \in 97..126 -> Ch(PrintableLower, b - 96)

\* the character of a two-byte sequence (the inputs hold no other one)
TwoByteChar(lead, cont) ==
    CASE lead = 195 /\ cont = 169 -> "é"

\* chunk.decode('utf-8', errors='replace'), which is chunk.decode('utf-8') for
\* valid bytes: a byte that starts no character, and a lead byte without its
\* continuation byte, each become U+FFFD.  (Lead bytes of three- and four-byte
\* characters, 224..244, are not among the inputs.)
RECURSIVE Utf8Replace(_)
Utf8Replace(bytes) ==
    IF bytes = <<>> THEN ""
    ELSE IF bytes[1] < 128 THEN AsciiChar(bytes[1]) \o Utf8Replace(Tail(bytes))
    ELSE IF bytes[1] \in 194..223 /\ Len(bytes) >= 2 /\ bytes[2] \in 128..191
    THEN TwoByteChar(bytes[1], bytes[2]) \o Utf8Replace(SubSeq(bytes, 3, Len(bytes)))
    ELSE "�" \o Utf8Replace(Tail(bytes))

\* io.TextIOWrapper(gz, ...) with the default newline=None: on reading,
\* "\r\n" and "\r" are translated into "\n"
RECURSIVE UniversalNewlines(_)
UniversalNewlines(text) ==
    IF text = "" THEN ""
    ELSE IF StartsWith(text, "\r\n") THEN "\n" \o UniversalNewlines(SubSeq(text, 3, Len(text)))
    ELSE IF StartsWith(text, "\r") THEN "\n" \o UniversalNewlines(SubSeq(text, 2, Len(text)))
    ELSE Ch(text, 1) \o UniversalNewlines(SubSeq(text, 2, Len(text)))

\* everything text_stream.read() returns in all: the decompressed data,
\* decoded by the incremental decoder (errors='replace'), newlines translated
GzipText(data) == UniversalNewlines(Utf8Replace(data))

\* gzip.GzipFile reading a file that holds no gzip stream: nothing to read
\* in an empty file, gzip.BadGzipFile otherwise
GzipRaises(f) == ~f.gzip /\ f.data # <<>>

\* buffer.split('\n')
Split(s) ==
    Only({[k \in 1..(Len(nl) + 1) |->
              SubSeq(s, IF k = 1 THEN 1 ELSE nl[k - 1] + 1,
                        IF k > Len(nl) THEN Len(s) ELSE nl[k] - 1)] :
          nl \in {Ascending({i \in 1..Len(s) : Ch(s, i) = "\n"})}})

\* "buffer += decoded; lines = buffer.split('\n')", "for line in lines[:-1]:
\* yield line", "buffer = lines[-1]": <<the lines yielded, the new buffer>>
ChunkStep(buf, decoded) ==
    Only({<<SubSeq(pieces, 1, Len(pieces) - 1), pieces[Len(pieces)]>> :
          pieces \in {Split(buf \o decoded)}})

\* "if not chunk: if buffer: yield buffer; break": the lines yielded
FinalFlush(buf) == IF buf # "" THEN <<buf>> ELSE <<>>

\* list(_read_plain_file(file)) from byte pos on, with chunks of n bytes
RECURSIVE PlainFrom(_, _, _, _)
PlainFrom(data, pos, n, buf) ==
    IF pos >= Len(data) THEN FinalFlush(buf)
    ELSE Only({step[1] \o PlainFrom(data, pos + n, n, step[2]) :
               step \in {ChunkStep(buf, Utf8Replace(SubSeq(data, pos + 1,
                                                         MinOf({pos + n, Len(data)}))))}})

\* list(_read_plain_file(file)) for a file that holds data
_read_plain_file(data, n) == PlainFrom(data, 0, n, "")

\* the loop of _read_gzip_file over the text left in text_stream, with
\* chunks of n characters
RECURSIVE TextFrom(_, _, _)
TextFrom(text, n, buf) ==
    IF text = "" THEN FinalFlush(buf)
    ELSE Only({step[1] \o TextFrom(SubSeq(text, n + 1, Len(text)), n, step[2]) :
               step \in {ChunkStep(buf, SubSeq(text, 1, MinOf({n, Len(text)})))}})

\* list(_read_gzip_file(file)) for a file that holds the compression of data
_read_gzip_file(data, n) == TextFrom(GzipText(data), n, "")

-----------------------------------------------------------------------------
(* app/llm_summary.py, app/aggregation.py: the summary and the result *)

\* f"{n:,}"
RECURSIVE FormatThousands(_)
FormatThousands(n) ==
    IF n < 1000 THEN IntToStr(n)
    ELSE FormatThousands(n \div 1000) \o ","
           \o IntToStr((n % 1000) \div 100) \o IntToStr((n % 100) \div 10) \o IntToStr(n % 10)

SYSTEM_PROMPT ==
    Join(<<"You are a senior software engineer analyzing error logs.",
           "You will receive a sanitized summary of error clusters (not raw logs).",
           "Your task is to:",
           "1. Identify the dominant issues",
           "2. Explain what likely went wrong",
           "3. Suggest next investigation steps",
           "",
           "Be concise (2-4 sentences). Focus on actionable insights.",
           "Do not make up specific details not present in the data.">>, "\n")

\* generate_llm_summary: full_prompt, the only text of the request payload
FullPrompt(cls, total_lines, error_count) ==
    SYSTEM_PROMPT \o "\n\n"
      \o "Analyzed " \o FormatThousands(total_lines) \o " log lines. Found "
      \o FormatThousands(error_count) \o " error/warning entries.\n\n"
      \o prepare_cluster_summary_for_llm(cls)
      \o "\n\nProvide a brief summary of the main issues and suggested next steps."

\* generate_llm_summary: "api_key or os.environ.get("GEMINI_API_KEY")", the
\* operands of the "or" chain that are evaluated before the name
\* DEFAULT_GEMINI_API_KEY, which no module defines
KeyBeforeDefault(api_key, env_key) == IF Truthy(api_key) THEN api_key ELSE env_key

\* what the POST comes to: a response with a status and a body, or an
\* exception of httpx (a timeout after 30.0 s, a connection error)
LlmOutcomes ==
    {[kind |-> "response", status |-> 200, json |-> TRUE, text |-> Some(" Disk is full. ")],
     [kind |-> "response", status |-> 200, json |-> TRUE, text |-> Some("  ")],
     [kind |-> "response", status |-> 200, json |-> TRUE, text |-> None],
     [kind |-> "response", status |-> 200, json |-> FALSE, text |-> None],
     [kind |-> "response", status |-> 429, json |-> TRUE, text |-> None],
     [kind |-> "response", status |-> 500, json |-> FALSE, text |-> None],
     [kind |-> "TimeoutException", status |-> 0, json |-> FALSE, text |-> None],
     [kind |-> "ConnectError", status |-> 0, json |-> FALSE, text |-> None]}

\* generate_llm_summary from "if response.status_code != 200" on, and the
\* "except Exception" around it: the value returned.  json: response.json()
\* parses the body; text: candidates[0].content.parts[0].text of the parsed
\* body, None for a body without it.
LlmReturn(outcome) ==
    IF outcome.kind # "response" THEN None
    ELSE IF outcome.status # 200 THEN None
    ELSE IF ~outcome.json THEN None
    ELSE IF outcome.text = None THEN None
    ELSE Some(Strip(outcome.text[1]))

\* "if not llm_summary" is false: a string that is not empty
HasSummary(s) == s # None /\ s[1] # ""

\* generate_basic_summary
generate_basic_summary(cls, total_lines, error_count, fatal_count) ==
    IF cls = <<>>
    THEN IF error_count = 0
         THEN "Processed " \o FormatThousands(total_lines)
                \o " lines. No significant errors detected."
         ELSE "Processed " \o FormatThousands(total_lines) \o " lines with "
                \o FormatThousands(error_count)
                \o " errors, but no patterns could be clustered."
    ELSE Join(<<"Processed " \o FormatThousands(total_lines) \o " lines.">>
              \o (IF fatal_count > 0
                  THEN <<"CRITICAL: " \o FormatThousands(fatal_count)
                           \o " fatal errors detected.">>
                  ELSE <<>>)
              \o <<"Found " \o FormatThousands(error_count) \o " error entries grouped into "
                     \o IntToStr(Len(cls)) \o " clusters.">>
              \o <<"Most frequent issue (" \o FormatThousands(cls[1].total_count)
                     \o " occurrences): related to "
                     \o (IF cls[1].keywords # <<>>
                         THEN Join(Top(cls[1].keywords, 3), ", ")
                         ELSE "various errors")
                     \o ".">>
              \o (IF cls[1].keywords # <<>>
                  THEN <<"Suggested investigation: Search codebase for '"
                           \o cls[1].keywords[1] \o "'.">>
                  ELSE <<>>),
              " ")

\* the number of entries of a level
LevelCount(es, level) == Cardinality({k \in 1..Len(es) : es[k].level = level})

\* format_templates_for_output
format_templates_for_output(tpls, top_n) ==
    [k \in 1..MinOf({top_n, Len(tpls)}) |->
        [pattern |-> tpls[k].template,
         count |-> tpls[k].count,
         first_seen_line |-> tpls[k].first_occurrence_line,
         examples |-> Top(tpls[k].original_messages, 3)]]

\* format_clusters_for_output: "samples" after the messages msgs
RECURSIVE Samples(_, _)
Samples(msgs, samples) ==
    IF msgs = <<>> THEN samples
    ELSE Samples(Tail(msgs),
                 IF (\A k \in 1..Len(samples) : samples[k] # Head(msgs)) /\ Len(samples) < 3
                 THEN Append(samples, Head(msgs))
                 ELSE samples)

\* the original_messages of the templates, one after the other
RECURSIVE AllMessages(_)
AllMessages(tpls) ==
    IF tpls = <<>> THEN <<>>
    ELSE Head(tpls).original_messages \o AllMessages(Tail(tpls))

\* format_clusters_for_output
format_clusters_for_output(cls) ==
    [c \in 1..Len(cls) |->
        [cluster_id |-> cls[c].cluster_id,
         total_occurrences |-> cls[c].total_count,
         unique_patterns |-> Len(cls[c].templates),
         keywords |-> cls[c].keywords,
         representative_pattern |-> cls[c].representative_sample,
         sample_messages |-> Samples(AllMessages(cls[c].templates), <<>>)]]

\* build_analysis_result: the AnalysisResult
build_analysis_result(total_lines, error_entries, tpls, cls, processing_time_ms, summary) ==
    [total_lines |-> total_lines,
     error_lines |-> LevelCount(error_entries, "ERROR"),
     fatal_lines |-> LevelCount(error_entries, "FATAL"),
     warning_lines |-> LevelCount(error_entries, "WARN"),
     exception_count |-> Cardinality({k \in 1..Len(error_entries) :
                                         has_exception(error_entries[k])}),
     top_templates |->
         format_templates_for_output(
             SortedDesc(tpls, [k \in 1..Len(tpls) |-> tpls[k].count]), 10),
     clusters |-> format_clusters_for_output(cls),
     llm_summary |-> summary,
     processing_time_ms |-> processing_time_ms]

-----------------------------------------------------------------------------
(* Bounds and inputs *)

\* the pieces normalize_message's argument is put together from, and how many
MaxPieces == 4
Pieces == {"port", ":", "=", " ", "5", "x"}

RECURSIVE PieceStrings(_)
PieceStrings(n) ==
    IF n = 0 THEN {""}
    ELSE PieceStrings(n - 1) \cup {a \o b : a \in PieceStrings(n - 1), b \in Pieces}

\* the entries process_entries is fed, and how many
MaxEntries == 2
EntryMessages == {"started", "fail x=1", "fail x=2"}
EntryExceptions == {None, Some("Traceback")}

-----------------------------------------------------------------------------
(* normalize_message applied to a message and then to its own result *)

NormalizeIdle == message = "" /\ normalized = None /\ renormalized = None
ProcessIdle ==
    /\ min_level = "WARN"
    /\ all_entries = <<>>
    /\ high_signal_entries = <<>>
    /\ templates = <<>>
ParseIdle ==
    /\ lines = <<>>
    /\ line_num = 0
    /\ pending_multiline = None
    /\ entries = <<>>
ClusterIdle ==
    /\ max_clusters = 10
    /\ cluster_labels = <<>>
    /\ clusters = <<>>
IngestIdle ==
    /\ filename = ""
    /\ file = [gzip |-> FALSE, data |-> <<>>]
    /\ chunk_size = 1
    /\ file_pos = 0
    /\ text_stream = None
    /\ buffer = ""
    /\ eof = TRUE
SummaryIdle ==
    /\ use_llm = FALSE
    /\ llm_api_key = None
    /\ env_api_key = None
    /\ api_calls = 0
    /\ request = None
    /\ llm_summary = None
    /\ result = None

InitNormalize ==
    /\ IngestIdle
    /\ SummaryIdle
    /\ error = None
    /\ pc = "normalize"
    /\ call = "normalize_message"
    /\ message \in PieceStrings(MaxPieces)
    /\ normalized = None
    /\ renormalized = None
    /\ ProcessIdle
    /\ ParseIdle
    /\ ClusterIdle

Normalize ==
    /\ pc = "normalize"
    /\ normalized' = Some(normalize_message(message))
    /\ pc' = "renormalize"
    /\ UNCHANGED <<call, ingestVars, summaryVars, error, message, renormalized, processVars, parseVars, clusterVars>>

Renormalize ==
    /\ pc = "renormalize"
    /\ renormalized' = Some(normalize_message(normalized[1]))
    /\ pc' = "done"
    /\ UNCHANGED <<call, ingestVars, summaryVars, error, message, normalized, processVars, parseVars, clusterVars>>

NextNormalize == Normalize \/ Renormalize

SpecNormalize == InitNormalize /\ [][NextNormalize]_vars

-----------------------------------------------------------------------------
(* LogNormalizer.process_entries over the entries of its input iterator *)

InitProcess ==
    /\ IngestIdle
    /\ SummaryIdle
    /\ error = None
    /\ pc = "process"
    /\ call = "process_entries"
    /\ min_level \in LogLevel
    /\ all_entries = <<>>
    /\ high_signal_entries = <<>>
    /\ templates = <<>>
    /\ NormalizeIdle
    /\ ParseIdle
    /\ ClusterIdle

\* the entry of process_entries: "self._templates = {}", whatever the
\* normalizer held before, with the assignment left out
ResetTemplatesOmitted(tpls) == tpls

\* the entry of process_entries: "self._templates = {}", whatever the
\* normalizer held before
ResetTemplates(tpls) == <<>>

\* one iteration of "for entry in entries"; before the first one, the entry of
\* process_entries: "high_signal_entries = []", "self._templates = {}"
ProcessEntry(entry) ==
    /\ pc = "process"
    /\ all_entries' = Append(all_entries, entry)
    /\ \E kept \in {IF all_entries = <<>> THEN <<>> ELSE high_signal_entries},
          tpls \in {IF all_entries = <<>> THEN ResetTemplates(templates) ELSE templates} :
         IF ~is_high_signal(entry, min_level)
         THEN /\ high_signal_entries' = kept
              /\ templates' = tpls
         ELSE /\ high_signal_entries' = Append(kept, entry)
              /\ templates' = UpdateTemplates(tpls, entry)
    /\ UNCHANGED <<pc, call, ingestVars, summaryVars, error, min_level, normalizeVars, parseVars, clusterVars>>

\* the iterator yields its next entry
NextEntry ==
    /\ Len(all_entries) < MaxEntries
    /\ \E level \in LogLevel, msg \in EntryMessages, exc \in EntryExceptions :
         ProcessEntry([ParsedLogEntry(msg, Len(all_entries) + 1, level, msg, None, exc)
                          EXCEPT !.raw_line = msg])

\* the iterator is exhausted: "return high_signal_entries, self._templates"
\* (after the entry of process_entries, when the iterator yields nothing)
ProcessReturn ==
    /\ pc = "process"
    /\ call = "analyze" => Len(all_entries) = Len(entries)
    /\ IF all_entries = <<>>
       THEN /\ high_signal_entries' = <<>>
            /\ templates' = ResetTemplates(templates)
       ELSE UNCHANGED <<high_signal_entries, templates>>
    /\ Return("cluster")
    /\ UNCHANGED <<call, ingestVars, summaryVars, error, min_level, all_entries, normalizeVars, parseVars, clusterVars>>

NextProcess == NextEntry \/ ProcessReturn

SpecProcess == InitProcess /\ [][NextProcess]_vars

-----------------------------------------------------------------------------
(* LogParser.parse_lines over the lines of its input iterator *)

\* the lines of test_parse_multiline_stacktrace
TestLines == <<
    "2024-01-15 10:30:45 ERROR Exception occurred",
    "Traceback (most recent call last):",
    "  File \"app.py\", line 42, in process",
    "    raise ValueError(\"Invalid input\")",
    "ValueError: Invalid input",
    "2024-01-15 10:30:46 INFO Normal log">>

\* the lines parse_lines is fed, and how many
MaxLines == 3
InputLines ==
    {"ERROR a", "INFO ok", " at b", "", "  ", "Caused by: x", " WARN z", "x Error",
     " KeyError: k"}

RECURSIVE LineSeqs(_)
LineSeqs(n) ==
    IF n = 0 THEN {<<>>}
    ELSE LineSeqs(n - 1) \cup {Append(ls, l) : ls \in LineSeqs(n - 1), l \in InputLines}

InitParse ==
    /\ IngestIdle
    /\ SummaryIdle
    /\ error = None
    /\ pc = "parse"
    /\ call = "parse_lines"
    /\ lines \in LineSeqs(MaxLines) \cup {TestLines}
    /\ line_num = 0
    /\ pending_multiline = None
    /\ entries = <<>>
    /\ NormalizeIdle
    /\ ProcessIdle
    /\ ClusterIdle

\* one iteration of "for line_num, line in enumerate(lines, start=1)"
ParseLine ==
    /\ pc = "parse"
    /\ line_num < Len(lines)
    /\ IF ParseLineRaises(pending_multiline, lines[line_num + 1])
       THEN \* the pending entry is yielded, then _parse_single_line raises
            /\ pending_multiline' = None
            /\ entries' = entries \o pending_multiline
            /\ pc' = "raised"
            /\ error' = <<"parse", "RecursionError">>
       ELSE /\ \E step \in {ParseLineStep(pending_multiline, lines[line_num + 1],
                                           line_num + 1)} :
                  /\ pending_multiline' = step[1]
                  /\ entries' = entries \o step[2]
            /\ UNCHANGED <<pc, error>>
    /\ line_num' = line_num + 1
    /\ UNCHANGED <<call, ingestVars, summaryVars, lines, normalizeVars, processVars,
                   clusterVars>>

\* the input is exhausted, and the final flush is left out
ParseEndNoFlush ==
    /\ pc = "parse"
    /\ line_num = Len(lines)
    /\ eof
    /\ Return("process")
    /\ UNCHANGED <<call, ingestVars, summaryVars, error, parseVars, normalizeVars, processVars,
                   clusterVars>>

\* the input is exhausted: "Flush any remaining multiline entry"
ParseEnd ==
    /\ pc = "parse"
    /\ line_num = Len(lines)
    /\ eof
    /\ entries' = entries \o pending_multiline
    /\ Return("process")
    /\ UNCHANGED <<call, ingestVars, summaryVars, error, lines, line_num, pending_multiline, normalizeVars, processVars,
                   clusterVars>>

NextParse == ParseLine \/ ParseEnd

SpecParse == InitParse /\ [][NextParse]_vars

-----------------------------------------------------------------------------
(* ErrorClusterer.cluster_templates over a template map *)

\* the templates cluster_templates is given (template and an example message
\* that normalizes to it), how many, and their counts
MaxTemplates == 4
MaxCount == 2
ClusterTexts ==
    {<<"the", "the">>, <<"=<NUM>", "=7">>, <<"timeout=<NUM>", "timeout=7">>,
     <<"disk full", "disk full">>}

\* a template the normalizer makes of count occurrences of a message
TemplateOf(text, count, line) ==
    [template |-> text[1],
     original_messages |-> [k \in 1..MinOf({count, MaxExamples}) |-> text[2]],
     count |-> count, first_occurrence_line |-> line]

RECURSIVE TemplateMaps(_)
TemplateMaps(n) ==
    IF n = 0 THEN {<<>>}
    ELSE TemplateMaps(n - 1) \cup
         {Append(m, TemplateOf(text, count, Len(m) + 1)) :
            m \in {x \in TemplateMaps(n - 1) : Len(x) = n - 1},
            text \in ClusterTexts, count \in 1..MaxCount}

\* template maps the vectorizer finds no feature in: stop words and
\* placeholders only, and one term that every template has
FeaturelessMaps ==
    {[k \in 1..4 |-> TemplateOf(texts[k], 1, k)] :
        texts \in {<<<<"the", "the">>, <<"=<NUM>", "=7">>, <<"it", "it">>, <<"<IP>", "10.0.0.1">>>>,
                   <<<<"timeout=<NUM>", "timeout=7">>, <<"timeout <IP>", "timeout 10.0.0.1">>,
                     <<"timeout", "timeout">>, <<"<NUM> timeout", "=7 timeout">>>>}}

InitCluster ==
    /\ IngestIdle
    /\ SummaryIdle
    /\ error = None
    /\ pc = "cluster"
    /\ call = "cluster_templates"
    /\ templates \in
           {m \in TemplateMaps(MaxTemplates) :
               \A i, j \in 1..Len(m) : i # j => m[i].template # m[j].template}
             \cup FeaturelessMaps
    /\ max_clusters \in 1..2
    /\ cluster_labels = <<>>
    /\ clusters = <<>>
    /\ min_level = "WARN"
    /\ all_entries = <<>>
    /\ high_signal_entries = <<>>
    /\ NormalizeIdle
    /\ ParseIdle

\* "if not templates: return []"
ClusterEmpty ==
    /\ pc = "cluster"
    /\ templates = <<>>
    /\ clusters' = <<>>
    /\ Return("summarize")
    /\ UNCHANGED <<call, ingestVars, summaryVars, error, max_clusters, cluster_labels, normalizeVars, processVars, parseVars>>

\* too few templates, a vectorizer that raises ValueError, or n_clusters <= 1:
\* "return self._create_single_cluster(template_list)"
ClusterSingle ==
    /\ pc = "cluster"
    /\ templates # <<>>
    /\ SingleClusterCase(templates, max_clusters)
    /\ clusters' = _create_single_cluster(templates)
    /\ Return("summarize")
    /\ UNCHANGED <<call, ingestVars, summaryVars, error, max_clusters, cluster_labels, normalizeVars, processVars, parseVars>>

\* "cluster_labels = self._kmeans.fit_predict(tfidf_matrix)" and
\* "clusters = self._build_clusters(...)": the labels are whatever the
\* partitioning step assigns
ClusterKMeans ==
    /\ pc = "cluster"
    /\ templates # <<>>
    /\ ~SingleClusterCase(templates, max_clusters)
    /\ \E docs \in {TemplateDocs(templates)} :
         \E labels \in [1..Len(templates) ->
                           0..(NClusters(Len(templates), max_clusters) - 1)] :
           \E keywords \in KeywordsByLabel({labels[i] : i \in 1..Len(templates)}, labels,
                                           docs, Vocabulary(docs)) :
              /\ cluster_labels' = labels
              /\ clusters' = _build_clusters(templates, labels, keywords)
    /\ Return("summarize")
    /\ UNCHANGED <<call, ingestVars, summaryVars, error, max_clusters, normalizeVars, processVars, parseVars>>

NextCluster == ClusterEmpty \/ ClusterSingle \/ ClusterKMeans

SpecCluster == InitCluster /\ [][NextCluster]_vars

-----------------------------------------------------------------------------
(* read_log_file over a byte source, chunk by chunk *)

\* the bytes of the files, how many, and the chunk sizes
MaxBytes == 4
MaxChunk == 3
InputBytes == {97, 10, 13, 195, 169}

RECURSIVE ByteSeqs(_)
ByteSeqs(n) ==
    IF n = 0 THEN {<<>>}
    ELSE ByteSeqs(n - 1) \cup {Append(bs, b) : bs \in ByteSeqs(n - 1), b \in InputBytes}

\* the accepted file names, and the files that come under them
FileNames == {"app.log", "app.txt", "app.log.gz"}
IsGz(name) == Len(name) >= 3 /\ SubSeq(name, Len(name) - 2, Len(name)) = ".gz"

InitIngest ==
    /\ pc = "ingest"
    /\ call = "read_log_file"
    /\ filename \in {"app.log", "app.log.gz"}
    /\ file \in [gzip : IF IsGz(filename) THEN BOOLEAN ELSE {FALSE},
                  data : ByteSeqs(MaxBytes)]
    /\ chunk_size \in 1..MaxChunk
    /\ file_pos = 0
    /\ text_stream = None
    /\ buffer = ""
    /\ eof = FALSE
    /\ error = None
    /\ NormalizeIdle
    /\ ProcessIdle
    /\ ParseIdle
    /\ ClusterIdle
    /\ SummaryIdle

\* the generator of read_log_file runs: always when it is consumed directly,
\* inside analyze() when parse_lines asks for a line it has not got yet
Reading ==
    /\ ~eof
    /\ IF call = "analyze" THEN pc = "parse" /\ line_num = Len(lines) ELSE pc = "ingest"

\* _read_gzip_file up to its first "chunk = text_stream.read(CHUNK_SIZE)":
\* "content = file.read()", and the gzip stream is opened by the first read
GzipOpen ==
    /\ Reading
    /\ IsGz(filename)
    /\ text_stream = None
    /\ file_pos' = Len(file.data)
    /\ IF GzipRaises(file)
       THEN /\ pc' = "raised"
            /\ error' = <<"ingest", "BadGzipFile">>
            /\ UNCHANGED text_stream
       ELSE /\ text_stream' = Some(GzipText(file.data))
            /\ UNCHANGED <<pc, error>>
    /\ UNCHANGED <<call, filename, file, chunk_size, buffer, eof, normalizeVars, processVars,
                   parseVars, clusterVars, summaryVars>>

\* one iteration of "while True" of _read_gzip_file
ReadGzipChunk ==
    /\ Reading
    /\ IsGz(filename)
    /\ text_stream # None
    /\ IF text_stream[1] = ""
       THEN /\ lines' = lines \o FinalFlush(buffer)
            /\ eof' = TRUE
            /\ Return("parse")
            /\ UNCHANGED <<text_stream, buffer>>
       ELSE /\ \E step \in {ChunkStep(buffer, SubSeq(text_stream[1], 1,
                                         MinOf({chunk_size, Len(text_stream[1])})))} :
                  /\ lines' = lines \o step[1]
                  /\ buffer' = step[2]
            /\ text_stream' = Some(SubSeq(text_stream[1], chunk_size + 1, Len(text_stream[1])))
            /\ UNCHANGED <<pc, eof>>
    /\ UNCHANGED <<call, filename, file, chunk_size, file_pos, error, line_num,
                   pending_multiline, entries, normalizeVars, processVars, clusterVars,
                   summaryVars>>

\* one iteration of "while True" of _read_plain_file
ReadPlainChunk ==
    /\ Reading
    /\ ~IsGz(filename)
    /\ IF file_pos >= Len(file.data)
       THEN /\ lines' = lines \o FinalFlush(buffer)
            /\ eof' = TRUE
            /\ Return("parse")
            /\ UNCHANGED <<file_pos, buffer>>
       ELSE /\ \E step \in {ChunkStep(buffer,
                                Utf8Replace(SubSeq(file.data, file_pos + 1,
                                     MinOf({file_pos + chunk_size, Len(file.data)}))))} :
                  /\ lines' = lines \o step[1]
                  /\ buffer' = step[2]
            /\ file_pos' = MinOf({file_pos + chunk_size, Len(file.data)})
            /\ UNCHANGED <<pc, eof>>
    /\ UNCHANGED <<call, filename, file, chunk_size, text_stream, error, line_num,
                   pending_multiline, entries, normalizeVars, processVars, clusterVars,
                   summaryVars>>

NextIngest == GzipOpen \/ ReadGzipChunk \/ ReadPlainChunk

SpecIngest == InitIngest /\ [][NextIngest]_vars

-----------------------------------------------------------------------------
(* LogAnalyzer.analyze: ingest, parse, normalize, cluster, summarize *)

\* the bytes of a text of characters below 128
Bytes(str) ==
    [k \in 1..Len(str) |-> CHOOSE b \in {9, 10, 13} \cup (32..95) \cup (97..126) : AsciiChar(b) = Ch(str, k)]

\* the contents of the analyzed files
Contents ==
    {Bytes(""),
     Bytes("INFO ok\n"),
     Bytes("ERROR disk full\n"),
     Bytes("ERROR disk full\r\nWARN net down"),
     Bytes("ERROR disk\nERROR net\nFATAL db\nWARN auth\n"),
     Bytes("{\"level\": \"error\", \"message\": \"x=1\"}\n"),
     Bytes("ERROR caf") \o <<195, 169>> \o Bytes(" x"),
     <<195, 40, 10, 169>>}

\* the chunk sizes the files are read with
PipelineChunks == {MaxChunk, 16}

\* the configurations of the summary: use_llm, the llm_api_key of the analyzer
\* and the GEMINI_API_KEY of the environment
LlmConfigs ==
    {<<FALSE, None, None>>}
      \cup ({TRUE} \X {None, Some(""), Some("key-1")} \X {None, Some("key-2")})

\* what time.perf_counter() makes of the processing time
ProcessingTimes == {1, 2}

Init ==
    /\ pc = "parse"
    /\ call = "analyze"
    /\ filename \in FileNames
    /\ file \in [gzip : IF IsGz(filename) THEN BOOLEAN ELSE {FALSE}, data : Contents]
    /\ chunk_size \in PipelineChunks
    /\ file_pos = 0
    /\ text_stream = None
    /\ buffer = ""
    /\ eof = FALSE
    /\ error = None
    /\ \E cfg \in LlmConfigs :
          /\ use_llm = cfg[1]
          /\ llm_api_key = cfg[2]
          /\ env_api_key = cfg[3]
    /\ api_calls = 0
    /\ request = None
    /\ llm_summary = None
    /\ result = None
    /\ NormalizeIdle
    /\ ProcessIdle
    /\ ParseIdle
    /\ ClusterIdle

\* process_entries takes the next entry of iter(all_entries)
AnalyzeProcessEntry ==
    /\ call = "analyze"
    /\ Len(all_entries) < Len(entries)
    /\ ProcessEntry(entries[Len(all_entries) + 1])

\* "if self.use_llm and clusters" is false
NoLlm ==
    /\ pc = "summarize"
    /\ ~(use_llm /\ clusters # <<>>)
    /\ pc' = "result"
    /\ UNCHANGED <<call, ingestVars, summaryVars, error, normalizeVars, processVars,
                   parseVars, clusterVars>>

\* generate_llm_summary, "key = api_key or os.environ.get(...) or
\* DEFAULT_GEMINI_API_KEY" with the first two operands falsy: the name is
\* looked up and is not defined; the NameError is raised before the try block
\* and nothing in analyze() catches it
LlmKeyError ==
    /\ pc = "summarize"
    /\ use_llm /\ clusters # <<>>
    /\ ~Truthy(KeyBeforeDefault(llm_api_key, env_api_key))
    /\ pc' = "raised"
    /\ error' = <<"summarize", "NameError">>
    /\ UNCHANGED <<call, ingestVars, summaryVars, normalizeVars, processVars, parseVars,
                   clusterVars>>

\* generate_llm_summary up to "response = await client.post(...)"
LlmRequest ==
    /\ pc = "summarize"
    /\ use_llm /\ clusters # <<>>
    /\ Truthy(KeyBeforeDefault(llm_api_key, env_api_key))
    /\ api_calls' = api_calls + 1
    /\ request' = Some([key |-> KeyBeforeDefault(llm_api_key, env_api_key)[1],
                        text |-> FullPrompt(clusters, Len(entries),
                                            Len(high_signal_entries))])
    /\ pc' = "await_llm"
    /\ UNCHANGED <<call, ingestVars, use_llm, llm_api_key, env_api_key, llm_summary, result,
                   error, normalizeVars, processVars, parseVars, clusterVars>>

\* the POST is over: generate_llm_summary returns
LlmResponse ==
    /\ pc = "await_llm"
    /\ \E outcome \in LlmOutcomes : llm_summary' = LlmReturn(outcome)
    /\ pc' = "result"
    /\ UNCHANGED <<call, ingestVars, use_llm, llm_api_key, env_api_key, api_calls, request,
                   result, error, normalizeVars, processVars, parseVars, clusterVars>>

\* analyze() from "if not llm_summary" on: the rule-based summary when there
\* is no other, and the result
BuildResult ==
    /\ pc = "result"
    /\ \E t \in ProcessingTimes :
         result' = Some(build_analysis_result(
                      Len(entries), high_signal_entries, templates, clusters, t,
                      IF HasSummary(llm_summary) THEN llm_summary[1]
                      ELSE generate_basic_summary(
                               clusters, Len(entries), Len(high_signal_entries),
                               LevelCount(high_signal_entries, "FATAL"))))
    /\ pc' = "done"
    /\ UNCHANGED <<call, ingestVars, use_llm, llm_api_key, env_api_key, api_calls, request,
                   llm_summary, error, normalizeVars, processVars, parseVars, clusterVars>>

Next ==
    \/ GzipOpen
    \/ ReadGzipChunk
    \/ ReadPlainChunk
    \/ ParseLine
    \/ ParseEnd
    \/ AnalyzeProcessEntry
    \/ ProcessReturn
    \/ ClusterEmpty
    \/ ClusterSingle
    \/ ClusterKMeans
    \/ NoLlm
    \/ LlmKeyError
    \/ LlmRequest
    \/ LlmResponse
    \/ BuildResult

Spec == Init /\ [][Next]_vars

-----------------------------------------------------------------------------
(* process_entries over entries that come under few templates, many times *)

\* the entries of the iterator, and how many
MaxOccurrences == 4
OccurrenceEntries ==
    {<<"ERROR", "fail x=1">>, <<"ERROR", "fail x=2">>, <<"ERROR", "started">>,
     <<"INFO", "started">>}

InitOccur ==
    /\ IngestIdle
    /\ SummaryIdle
    /\ error = None
    /\ pc = "process"
    /\ call = "process_entries"
    /\ min_level = "WARN"
    /\ all_entries = <<>>
    /\ high_signal_entries = <<>>
    /\ templates = <<>>
    /\ NormalizeIdle
    /\ ParseIdle
    /\ ClusterIdle

\* the iterator yields its next entry
NextOccurrence ==
    /\ Len(all_entries) < MaxOccurrences
    /\ \E e \in OccurrenceEntries :
         ProcessEntry([ParsedLogEntry(e[2], Len(all_entries) + 1, e[1], e[2], None, None)
                          EXCEPT !.raw_line = e[2]])

NextOccur == NextOccurrence \/ ProcessReturn

SpecOccur == InitOccur /\ [][NextOccur]_vars

-----------------------------------------------------------------------------
(* LogParser.parse_lines over JSON lines *)

\* the lines parse_lines is fed, and how many
MaxJsonLines == 2
JsonLines ==
    {"{\"level\": \"ERROR\", \"message\": \"Connection failed\", \"timestamp\": \"2024-01-15T10:30:45Z\"}",
     "{\"lvl\": \"warn\", \"msg\": \"disk\", \"name\": \"db\"}",
     "{\"level\": \"\", \"severity\": \"critical\", \"message\": \"\", \"text\": \"boom\"}",
     "{\"level\": 0, \"log_level\": \"info\", \"msg\": [], \"@message\": \"ok\"}",
     "{\"level\": 5, \"message\": true}",
     "{\"a\": 1}",
     "{\"level\": \"info\"",
     "{not json} ERROR x",
     "{\"a\": [[[[1]]]]}",
     "{\"a\": [[[1]]]}",
     " at b",
     "    {\"level\": \"info\", \"message\": \"in\"}",
     "FATAL down"}

RECURSIVE JsonLineSeqs(_)
JsonLineSeqs(n) ==
    IF n = 0 THEN {<<>>}
    ELSE JsonLineSeqs(n - 1) \cup {Append(ls, l) : ls \in JsonLineSeqs(n - 1), l \in JsonLines}

InitJson ==
    /\ IngestIdle
    /\ SummaryIdle
    /\ error = None
    /\ pc = "parse"
    /\ call = "parse_lines"
    /\ lines \in JsonLineSeqs(MaxJsonLines)
    /\ line_num = 0
    /\ pending_multiline = None
    /\ entries = <<>>
    /\ NormalizeIdle
    /\ ProcessIdle
    /\ ClusterIdle

SpecJson == InitJson /\ [][NextParse]_vars

-----------------------------------------------------------------------------
(* Claims *)

\* C1: when process_entries returns, the counts of the templates add up to the
\* number of high-signal entries
C1_CountConservation ==
    pc = "done" => SumCounts(templates) = Len(high_signal_entries)

\* C1 witness: process_entries has returned with one template that counts two
\* entries whose messages differ
C1_Witness ==
    /\ pc = "done"
    /\ \E k \in 1..Len(templates) :
           /\ templates[k].count = 2
           /\ templates[k].original_messages[1] # templates[k].original_messages[2]
    /\ Len(high_signal_entries) = 2

\* C5: normalizing the result of normalize_message again changes nothing
C5_Idempotent ==
    pc = "done" => renormalized = normalized

\* the claim's condition for an entry to be high-signal
HighSignalClaim(entry, minLevel) ==
    \/ entry.level = "ERROR"
    \/ entry.level = "FATAL"
    \/ Truthy(entry.exception)
    \/ (\E kw \in ERROR_KEYWORDS : Contains(StrLower(entry.message), kw))
    \/ (entry.level = "WARN" /\ LevelValue(minLevel) <= LevelValue("WARN"))

\* C10: the high-signal list holds exactly the entries that are ERROR or FATAL,
\* carry exception text, hit an error keyword, or are WARN under a minimum
\* severity of at most WARN; DEBUG, TRACE and INFO entries without exception
\* text or keyword hit are never in it
C10_HighSignalExact ==
    /\ high_signal_entries =
           SelectSeq(all_entries, LAMBDA e : HighSignalClaim(e, min_level))
    /\ \A k \in 1..Len(high_signal_entries) :
           LET e == high_signal_entries[k]
           IN ~(/\ e.level \in {"DEBUG", "TRACE", "INFO"}
                /\ ~Truthy(e.exception)
                /\ ~\E kw \in ERROR_KEYWORDS : Contains(StrLower(e.message), kw))

\* C10 witness: a WARN entry without exception or keyword was dropped under a
\* minimum severity above WARN, and a DEBUG entry with a keyword was kept
C10_Witness ==
    /\ LevelValue(min_level) > LevelValue("WARN")
    /\ \E k \in 1..Len(all_entries) :
           /\ all_entries[k].level = "WARN"
           /\ all_entries[k].message = "started"
           /\ all_entries[k].exception = None
    /\ \E k \in 1..Len(high_signal_entries) :
           /\ high_signal_entries[k].level = "DEBUG"
           /\ high_signal_entries[k].exception = None
    /\ Len(high_signal_entries) < Len(all_entries)

\* C2: the lines of test_parse_multiline_stacktrace parse to exactly two entries,
\* the first multiline with "Traceback" in its raw text, the second the INFO line
C2_TracebackTwoEntries ==
    (pc = "done" /\ lines = TestLines) =>
        /\ Len(entries) = 2
        /\ entries[1].is_multiline
        /\ Contains(entries[1].raw_line, "Traceback")
        /\ entries[2].raw_line = TestLines[6]
        /\ entries[2].level = "INFO"

\* the number of places a template holds in the member lists of the clusters
Memberships(cls, tpl) ==
    Cardinality({<<c, t>> \in (1..Len(cls)) \X (1..MaxTemplates) :
                    t <= Len(cls[c].templates) /\ cls[c].templates[t] = tpl})

\* C3: when cluster_templates returns for a non-empty template map, every
\* template is a member of exactly one cluster, once, and the clusters have no
\* other members: the member counts add up to the number of templates
C3_Partition ==
    (pc = "done" /\ templates # <<>>) =>
        /\ \A k \in 1..Len(templates) : Memberships(clusters, templates[k]) = 1
        /\ \A c \in 1..Len(clusters) : \A t \in 1..Len(clusters[c].templates) :
               \E k \in 1..Len(templates) : clusters[c].templates[t] = templates[k]
        /\ Len(templates) = Cardinality({<<c, t>> \in (1..Len(clusters)) \X (1..MaxTemplates) :
                                             t <= Len(clusters[c].templates)})

\* C3 witness: the partitioning step has put the templates into two clusters
\* of two
C3_Witness ==
    /\ pc = "done"
    /\ Len(clusters) = 2
    /\ Len(clusters[1].templates) = 2
    /\ Len(clusters[2].templates) = 2
    /\ cluster_labels # <<>>

\* C4: the clusters cluster_templates returns are in non-increasing order of
\* total_count and the cluster at position i (from 0) has cluster_id i
C4_RankedIds ==
    pc = "done" =>
        /\ \A c \in 1..Len(clusters) : clusters[c].cluster_id = c - 1
        /\ \A c \in 1..(Len(clusters) - 1) :
               clusters[c].total_count >= clusters[c + 1].total_count

\* C4 witness: the cluster of label 1 has the greater total_count and is
\* returned first, with id 0
C4_Witness ==
    /\ pc = "done"
    /\ Len(clusters) = 2
    /\ clusters[1].total_count > clusters[2].total_count
    /\ \E k \in 1..Len(templates) :
           cluster_labels[k] = 1 /\ clusters[1].templates[1] = templates[k]

\* clusters whose templates all hold the example message alt instead of theirs
WithExamples(cls, alt) ==
    [c \in 1..Len(cls) |->
        [cls[c] EXCEPT !.templates =
            [t \in 1..Len(@) |-> [@[t] EXCEPT !.original_messages = <<alt>>]]]]

\* C9: the digest of the clusters is the same whatever example messages their
\* templates hold: it is made of ids, counts, keywords and representative
\* templates only
C9_DigestIgnoresExamples ==
    pc = "done" =>
        \A alt \in {"password=hunter2", "=7"} :
            prepare_cluster_summary_for_llm(WithExamples(clusters, alt))
                = prepare_cluster_summary_for_llm(clusters)

\* C9 witness: a digest of two clusters, the first template of a cluster
\* holding an example message that is not its template and is not in the digest
C9_Witness ==
    /\ pc = "done"
    /\ Len(clusters) = 2
    /\ \E c \in 1..2 :
           /\ clusters[c].templates[1].original_messages[1] = "timeout=7"
           /\ clusters[c].representative_sample = "timeout=<NUM>"
    /\ Contains(prepare_cluster_summary_for_llm(clusters), "timeout=<NUM>")
    /\ ~Contains(prepare_cluster_summary_for_llm(clusters), "timeout=7")


\* C6: the lines ingested through one path are the lines the other path gives
\* for the same content (plain for the bytes, .gz for their compression)
C6_SameLines ==
    pc = "done" =>
        lines = IF IsGz(filename)
                THEN _read_plain_file(file.data, chunk_size)
                ELSE _read_gzip_file(file.data, chunk_size)

\* C7: for a file that is not empty, under every accepted name, analyze() gets
\* through ingestion, parsing, normalization and clustering: none of them
\* raises an error
C7_NoStageRaises ==
    file.data # <<>> =>
        ~(pc = "raised" /\ error[1] \in {"ingest", "parse", "normalize", "cluster"})

\* C8: with the summary requested, analyze() raises no error of the summary
\* step, asks the external service at most once, and when that step yields no
\* summary the result holds the rule-based one
C8_SummaryFallback ==
    use_llm =>
        /\ ~(error # None /\ error[1] = "summarize")
        /\ api_calls <= 1
        /\ (pc = "done" /\ ~HasSummary(llm_summary)) =>
               result[1].llm_summary =
                   generate_basic_summary(clusters, Len(entries), Len(high_signal_entries),
                                          LevelCount(high_signal_entries, "FATAL"))

\* C11: the representative_sample of every cluster cluster_templates returns is
\* the template of a member whose count is the largest among the members
C11_RepresentativeMax ==
    pc = "done" =>
        \A c \in 1..Len(clusters) :
            \E t \in 1..Len(clusters[c].templates) :
                /\ clusters[c].templates[t].template = clusters[c].representative_sample
                /\ \A u \in 1..Len(clusters[c].templates) :
                       clusters[c].templates[u].count <= clusters[c].templates[t].count

\* the messages of the high-signal entries that come under a template key, in
\* the order of the entries
RECURSIVE OccurrencesOf(_, _)
OccurrencesOf(es, key) ==
    IF es = <<>> THEN <<>>
    ELSE (IF normalize_message(Head(es).message) = key THEN <<Head(es).message>> ELSE <<>>)
           \o OccurrencesOf(Tail(es), key)

\* C12, in every state: a template counts at least its stored examples, stores
\* min(count, 3) of them, and they are the original messages of its first
\* min(count, 3) occurrences, in order
C12_State ==
    \A k \in 1..Len(templates) :
        /\ templates[k].count >= Len(templates[k].original_messages)
        /\ Len(templates[k].original_messages) = MinOf({templates[k].count, 3})
        /\ templates[k].original_messages =
               Top(OccurrencesOf(high_signal_entries, templates[k].template),
                   MinOf({templates[k].count, 3}))

\* C12, in every step: every template stays, and its count does not decrease
C12_Step ==
    /\ Len(templates') >= Len(templates)
    /\ \A k \in 1..Len(templates) :
           /\ templates'[k].template = templates[k].template
           /\ templates'[k].count >= templates[k].count

\* C12: after any sequence of add_occurrence calls on the templates of the
\* normalizer, count >= number of stored examples = min(count, 3), the examples
\* are the pre-normalization messages of the first min(count, 3) occurrences,
\* and count never decreases
C12_ExamplesCapped == []C12_State /\ [][C12_Step]_vars

\* C12 witness: a template has counted four occurrences with two different
\* messages and keeps the first three
C12_Witness ==
    \E k \in 1..Len(templates) :
        /\ templates[k].count = 4
        /\ templates[k].original_messages = <<"fail x=1", "fail x=2", "fail x=1">>
        /\ high_signal_entries[4].message = "fail x=2"

\* sum(c.total_count for c in clusters)
RECURSIVE SumTotals(_)
SumTotals(cls) ==
    IF cls = <<>> THEN 0 ELSE Head(cls).total_count + SumTotals(Tail(cls))

\* C13: the total_count of every cluster cluster_templates returns is the sum
\* of the counts of its members, and the total_counts add up to the sum of the
\* counts of the templates it was given
C13_TotalConservation ==
    pc = "done" =>
        /\ \A c \in 1..Len(clusters) :
               clusters[c].total_count = SumCounts(clusters[c].templates)
        /\ SumTotals(clusters) = SumCounts(templates)

\* C13 witness: four templates with counts 2, 1, 1, 2 were separated into a
\* cluster of total 4 and a cluster of total 2
C13_Witness ==
    /\ pc = "done"
    /\ Len(templates) = 4
    /\ SumCounts(templates) = 6
    /\ Len(clusters) = 2
    /\ clusters[1].total_count = 4
    /\ clusters[2].total_count = 2
    /\ Len(clusters[1].templates) = 2

\* C14: cluster_templates raises nothing; no templates give no cluster; fewer
\* templates than the minimum cluster size of 2, a cluster count
\* min(max_clusters, max(1, n // 2)) of 1, or a vectorizer without features
\* give one cluster, with id 0, whose members are all the templates
C14_DegenerateInput ==
    /\ pc # "raised"
    /\ pc = "done" =>
         /\ templates = <<>> => clusters = <<>>
         /\ (/\ templates # <<>>
             /\ \/ Len(templates) < 2
                \/ MinOf({max_clusters, MaxOf({1, Len(templates) \div 2})}) = 1
                \/ Vocabulary(TemplateDocs(templates)) = {})
              => /\ Len(clusters) = 1
                 /\ clusters[1].cluster_id = 0
                 /\ clusters[1].templates = templates

\* C14 witness: four templates with nothing but one shared term, and room for
\* two clusters, came back as one cluster
C14_Witness ==
    /\ pc = "done"
    /\ Len(templates) = 4
    /\ max_clusters = 2
    /\ templates[3].template = "timeout"
    /\ Len(clusters) = 1
    /\ Len(clusters[1].templates) = 4

\* the entries parse_lines has made so far: the ones yielded and, while it
\* runs, the pending one
EntriesSoFar == IF pc = "parse" THEN entries \o pending_multiline ELSE entries

\* an entry is the parsed one, or the parsed one with continuation lines
\* appended to it
SameParse(entry, parsed) ==
    IF ~entry.is_multiline THEN entry = parsed
    ELSE /\ entry.line_number = parsed.line_number
         /\ entry.level = parsed.level
         /\ entry.message = parsed.message
         /\ entry.timestamp = parsed.timestamp
         /\ entry.logger = parsed.logger
         /\ StartsWith(entry.raw_line, parsed.raw_line)

\* C15: parse_lines raises no error, and every line consumed that starts with
\* "{" has exactly one entry: the structured one when the line decodes to a
\* JSON object, the one of free-text parsing otherwise
C15_JsonLineOneEntry ==
    /\ pc # "raised"
    /\ \A k \in 1..line_num :
           StartsWith(lines[k], "{") =>
               /\ Cardinality({j \in 1..Len(EntriesSoFar) :
                                   EntriesSoFar[j].line_number = k}) = 1
               /\ \A j \in 1..Len(EntriesSoFar) :
                      EntriesSoFar[j].line_number = k =>
                          SameParse(EntriesSoFar[j],
                                    IF json_loads(Strip(lines[k])).ok
                                       /\ json_loads(Strip(lines[k])).v.k = "obj"
                                    THEN JsonEntry(Strip(lines[k]), k,
                                                   json_loads(Strip(lines[k])).v)
                                    ELSE _parse_plain_line(lines[k], k))

\* a line whose text, stripped, is a JSON object (the lines the decoder gives
\* up on for their depth are JSON objects in JsonLines)
JsonObjectLine(line) ==
    /\ StartsWith(Strip(line), "{")
    /\ \E r \in {json_loads(Strip(line))} : JRaised(r) \/ (r.ok /\ r.v.k = "obj")

\* the first field among keys that is non-empty in data, or None
FirstNonEmpty(data, keys) ==
    (LET Let_at(at) ==
        IF at = {} THEN None ELSE Some(DictGet(data, keys[MinOf(at)]))
     IN Let_at({i \in 1..Len(keys) : JTruthy(DictGet(data, keys[i]))}))

\* the level and the message the fields of data give to entry
FieldsOf(entry, data) ==
    /\ \E level \in {FirstNonEmpty(data, <<"level", "severity", "log_level", "lvl">>)} :
           entry.level = IF level = None THEN "UNKNOWN" ELSE from_string(PyStr(level[1]))
    /\ \E msg \in {FirstNonEmpty(data, <<"message", "msg", "text", "@message">>)} :
           msg # None => entry.message = PyStr(msg[1])

\* C16: every JSON-object line consumed has exactly one entry, whose level is
\* the mapping of the first non-empty field among level, severity, log_level
\* and lvl (UNKNOWN if none) and whose message is the first non-empty field
\* among message, msg, text and @message
C16_JsonFields ==
    \A k \in 1..line_num :
        JsonObjectLine(lines[k]) =>
            /\ Cardinality({j \in 1..Len(EntriesSoFar) :
                                EntriesSoFar[j].line_number = k}) = 1
            /\ \A j \in 1..Len(EntriesSoFar) :
                   EntriesSoFar[j].line_number = k =>
                       FieldsOf(EntriesSoFar[j], json_loads(Strip(lines[k])).v)

-----------------------------------------------------------------------------
(* normalize_message over messages that hold a UUID, an IPv4 address, an
   ISO-8601 timestamp or a hash of 40 or 64 hex digits *)

\* the pieces the messages are put together from, and how many
MaxValuePieces == 2
ValuePieces ==
    {"123e4567-e89b-12d3-a456-426614174000", "192.168.1.100", "2024-01-15T10:30:45Z",
     " ", "/", "http://h/", "at", "=",
     "a1a1a1a1a1a1a1a1a1a1a1a1a1a1a1a1a1a1a1a1",
     "b2b2b2b2b2b2b2b2b2b2b2b2b2b2b2b2b2b2b2b2b2b2b2b2b2b2b2b2b2b2b2b2"}

RECURSIVE ValueStrings(_)
ValueStrings(n) ==
    IF n = 0 THEN {""}
    ELSE ValueStrings(n - 1) \cup {a \o b : a \in ValueStrings(n - 1), b \in ValuePieces}

InitValues ==
    /\ IngestIdle
    /\ SummaryIdle
    /\ error = None
    /\ pc = "normalize"
    /\ call = "normalize_message"
    /\ message \in ValueStrings(MaxValuePieces)
    /\ normalized = None
    /\ renormalized = None
    /\ ProcessIdle
    /\ ParseIdle
    /\ ClusterIdle

SpecValues == InitValues /\ [][NextNormalize]_vars

\* the rules of VARIABLE_PATTERNS for UUIDs, IPv4 addresses and ISO-8601
\* timestamps: <<pattern, placeholder>>
UuidRule == VARIABLE_PATTERNS[1]
Ipv4Rule == VARIABLE_PATTERNS[5]
IsoTimestampRule == VARIABLE_PATTERNS[10]

\* out holds the placeholder of the rule and nothing of the rule's shape
Replaced(rule, out) == Contains(out, rule[2]) /\ ~ReFound(rule[1], out)

\* C17: once normalize_message has returned, for each of the UUID, IPv4 and
\* ISO-8601 timestamp rules, a message that holds a value of the rule's shape
\* has an output that holds the rule's placeholder and no value of that shape
C17_ValuesReplaced ==
    normalized # None =>
        \A rule \in {UuidRule, Ipv4Rule, IsoTimestampRule} :
            ReFound(rule[1], message) => Replaced(rule, normalized[1])

-----------------------------------------------------------------------------
(* process_entries over messages that differ in the values of variables *)

\* the messages of the entries: a family is a fixed text around the values of
\* one variable, <<text before, values, text after>>
MaxFamilyEntries == 4
Families == <<
    <<"Connection to ", {"192.168.1.100", "192.168.1.101", "10.0.0.50"}, ":5432 failed">>,
    <<"Database query failed", {""}, "">>,
    <<"fetch ", {"http://h/x", "http://10.0.0.1/x"}, " failed">> >>
FamilyMessages(f) == {Families[f][1] \o value \o Families[f][3] : value \in Families[f][2]}
FamilyOf(msg) == CHOOSE f \in 1..Len(Families) : msg \in FamilyMessages(f)

\* the iterator yields its next entry: an error of one of the families, or a
\* line that is not high-signal
NextFamilyEntry ==
    /\ Len(all_entries) < MaxFamilyEntries
    /\ \E e \in ({"ERROR"} \X UNION {FamilyMessages(f) : f \in 1..Len(Families)})
                   \cup {<<"INFO", "Application started">>} :
         ProcessEntry([ParsedLogEntry(e[2], Len(all_entries) + 1, e[1], e[2], None, None)
                          EXCEPT !.raw_line = e[2]])

NextFamilies == NextFamilyEntry \/ ProcessReturn

SpecFamilies == InitOccur /\ [][NextFamilies]_vars

\* the high-signal entries consumed so far whose message is of family f
OfFamily(f) ==
    {k \in 1..Len(high_signal_entries) : FamilyOf(high_signal_entries[k].message) = f}

\* the templates whose first occurrence is a message of family f
TemplatesOfFamily(f) ==
    {k \in 1..Len(templates) :
        FamilyOf(all_entries[templates[k].first_occurrence_line].message) = f}

\* C18: the high-signal messages of one family, which differ only in the
\* values of a recognized variable, are counted in a single template, and each
\* family has a template of its own: 3 connection failures and 1 "Database
\* query failed" give two templates, with counts 3 and 1
C18_OneTemplatePerFamily ==
    \A f \in 1..Len(Families) :
        OfFamily(f) # {} =>
            /\ Cardinality(TemplatesOfFamily(f)) = 1
            /\ \A k \in TemplatesOfFamily(f) : templates[k].count = Cardinality(OfFamily(f))

-----------------------------------------------------------------------------
(* LogAnalyzer.analyze without the LLM, for every minimum severity: what   *)
(* the result counts                                                       *)

\* the contents of the analyzed files
CountContents ==
    {Bytes("ERROR a\n\n at b\n"),
     Bytes("WARN slow\nINFO ok\n"),
     Bytes("WARN auth\nERROR x Error\n  \n"),
     Bytes("ERROR disk\nERROR net\nFATAL db\nWARN auth\n")}

InitCounts ==
    /\ pc = "parse"
    /\ call = "analyze"
    /\ filename = "app.log"
    /\ file \in [gzip : {FALSE}, data : CountContents]
    /\ chunk_size \in PipelineChunks
    /\ file_pos = 0
    /\ text_stream = None
    /\ buffer = ""
    /\ eof = FALSE
    /\ error = None
    /\ use_llm = FALSE
    /\ llm_api_key = None
    /\ env_api_key = None
    /\ api_calls = 0
    /\ request = None
    /\ llm_summary = None
    /\ result = None
    /\ NormalizeIdle
    /\ min_level \in LogLevel
    /\ all_entries = <<>>
    /\ high_signal_entries = <<>>
    /\ templates = <<>>
    /\ ParseIdle
    /\ ClusterIdle

NextCounts ==
    \/ ReadPlainChunk
    \/ ParseLine
    \/ ParseEnd
    \/ AnalyzeProcessEntry
    \/ ProcessReturn
    \/ ClusterEmpty
    \/ ClusterSingle
    \/ ClusterKMeans
    \/ NoLlm
    \/ BuildResult

SpecCounts == InitCounts /\ [][NextCounts]_vars

\* C19: the total_lines of the result is the number of text lines the
\* ingestor yielded
C19_TotalLines ==
    result # None => result[1].total_lines = Len(lines)

\* C20: the error, fatal and warning counts of the result are the numbers of
\* parsed entries of level ERROR, FATAL and WARN, and its exception count is
\* the number of parsed entries with exception text
C20_LevelCounts ==
    result # None =>
        /\ result[1].error_lines = LevelCount(entries, "ERROR")
        /\ result[1].fatal_lines = LevelCount(entries, "FATAL")
        /\ result[1].warning_lines = LevelCount(entries, "WARN")
        /\ result[1].exception_count =
               Cardinality({k \in 1..Len(entries) : has_exception(entries[k])})

\* C21: every read of the byte source takes at most one chunk (chunk_size
\* bytes), and the text kept between two chunks, the buffer, holds no newline
C21_BoundedReads ==
    /\ [](~Contains(buffer, "\n"))
    /\ [][file_pos' - file_pos <= chunk_size]_vars

-----------------------------------------------------------------------------
(* LogAnalyzer.analyze twice on one analyzer: the parser, the normalizer and *)
(* the clusterer of the second analysis have processed another file         *)

\* what the parser holds at the entry of parse_lines: "self._pending_multiline
\* = None", whatever it held before
ResetPending(pending) == None

\* the contents of the two files
ReuseContents ==
    {Bytes("ERROR a\n"),
     Bytes(" at b\nINFO ok\n"),
     Bytes("ERROR disk\nERROR net\nFATAL db\nWARN auth\n"),
     Bytes("ERROR a\n{\"a\": [[[[1]]]]}\n")}

InitReuse ==
    /\ pc = "parse"
    /\ call = "analyze"
    /\ filename = "app.log"
    /\ file \in [gzip : {FALSE}, data : ReuseContents]
    /\ chunk_size = 16
    /\ file_pos = 0
    /\ text_stream = None
    /\ buffer = ""
    /\ eof = FALSE
    /\ error = None
    /\ use_llm = FALSE
    /\ llm_api_key = None
    /\ env_api_key = None
    /\ api_calls = 0
    /\ request = None
    /\ llm_summary = None
    /\ result = None
    /\ NormalizeIdle
    /\ ProcessIdle
    /\ ParseIdle
    /\ ClusterIdle

\* analyze() is called again on the same analyzer, for a second file, after
\* the first call has returned or raised: the locals of the call are new,
\* read_log_file and parse_lines are entered, and the normalizer and the
\* clusterer are as the first call left them
AnalyzeAgain ==
    /\ call = "analyze"
    /\ pc \in {"done", "raised"}
    /\ filename = "app.log"
    /\ filename' = "app.txt"
    /\ file' \in [gzip : {FALSE}, data : ReuseContents]
    /\ file_pos' = 0
    /\ buffer' = ""
    /\ eof' = FALSE
    /\ lines' = <<>>
    /\ line_num' = 0
    /\ entries' = <<>>
    /\ pending_multiline' = ResetPending(pending_multiline)
    /\ all_entries' = <<>>
    /\ high_signal_entries' = <<>>
    /\ clusters' = <<>>
    /\ llm_summary' = None
    /\ result' = None
    /\ error' = None
    /\ pc' = "parse"
    /\ UNCHANGED <<call, chunk_size, text_stream, use_llm, llm_api_key, env_api_key,
                   api_calls, request, min_level, templates, max_clusters, cluster_labels,
                   normalizeVars>>

NextReuse ==
    \/ ReadPlainChunk
    \/ ParseLine
    \/ ParseEnd
    \/ AnalyzeProcessEntry
    \/ ProcessReturn
    \/ ClusterEmpty
    \/ ClusterSingle
    \/ ClusterKMeans
    \/ NoLlm
    \/ BuildResult
    \/ AnalyzeAgain

SpecReuse == InitReuse /\ [][NextReuse]_vars

\* LogNormalizer(min_level).process_entries(iter(es)) on a new normalizer, from
\* entry k on: <<high_signal_entries, templates>>
RECURSIVE ProcessFrom(_, _, _, _, _)
ProcessFrom(es, k, minLevel, kept, tpls) ==
    IF k > Len(es) THEN <<kept, tpls>>
    ELSE IF ~is_high_signal(es[k], minLevel) THEN ProcessFrom(es, k + 1, minLevel, kept, tpls)
    ELSE ProcessFrom(es, k + 1, minLevel, Append(kept, es[k]), UpdateTemplates(tpls, es[k]))
process_entries(es, minLevel) == ProcessFrom(es, 1, minLevel, <<>>, <<>>)

\* cls is what ErrorClusterer(max_clusters).cluster_templates(tpls) may return
\* on a new clusterer
ClusterOutcome(tpls, maxClusters, cls) ==
    IF tpls = <<>> THEN cls = <<>>
    ELSE IF SingleClusterCase(tpls, maxClusters) THEN cls = _create_single_cluster(tpls)
    ELSE \E docs \in {TemplateDocs(tpls)} :
           \E labels \in [1..Len(tpls) -> 0..(NClusters(Len(tpls), maxClusters) - 1)] :
             \E keywords \in KeywordsByLabel({labels[i] : i \in 1..Len(tpls)}, labels,
                                             docs, Vocabulary(docs)) :
                cls = _build_clusters(tpls, labels, keywords)

WholeLines(data) ==
    Only({IF pieces[Len(pieces)] = "" THEN SubSeq(pieces, 1, Len(pieces) - 1) ELSE pieces :
          pieces \in {Split(Utf8Replace(data))}})

\* C23: for every content and every chunk size, the lines read_log_file has
\* yielded when it is exhausted are the lines of the content decoded as a
\* whole and split on "\n", a final empty piece dropped
C23_ChunkIndependent ==
    pc = "done" => lines = WholeLines(file.data)

\* the entries of es that start at line k
StartingAt(es, k) == {j \in 1..Len(es) : es[j].line_number = k}

\* C24, in every state: an entry that is held pending has not been emitted,
\* no two emitted entries start at the same line, and once the input is
\* exhausted and parse_lines has returned, the entry held last is among the
\* emitted entries, once
C24_State ==
    /\ \A j \in 1..Len(entries) : StartingAt(entries, entries[j].line_number) = {j}
    /\ (pc = "parse" /\ pending_multiline # None) =>
           StartingAt(entries, pending_multiline[1].line_number) = {}
    /\ (pc = "done" /\ pending_multiline # None) =>
           /\ Cardinality(StartingAt(entries, pending_multiline[1].line_number)) = 1
           /\ entries[Len(entries)] = pending_multiline[1]

\* C24, in every step of the loop: the entry held pending either stays the
\* entry held (it may absorb the line) and nothing is emitted, or it is the
\* next entry emitted, as it is held
C24_Step ==
    (pc = "parse" /\ pending_multiline # None) =>
        \/ /\ pending_multiline' # None
           /\ pending_multiline'[1].line_number = pending_multiline[1].line_number
           /\ entries' = entries
        \/ /\ Len(entries') > Len(entries)
           /\ SubSeq(entries', 1, Len(entries) + 1) = Append(entries, pending_multiline[1])

\* C24: every entry that was held pending is emitted exactly once by the time
\* parse_lines has returned
C24_PendingEmittedOnce == []C24_State /\ [][C24_Step]_vars

\* C24 witness: parse_lines has returned, and the entry held at the end of the
\* input, which absorbed a line, is the last of several emitted entries
C24_Witness ==
    /\ pc = "done"
    /\ pending_multiline # None
    /\ pending_multiline[1].is_multiline
    /\ Len(entries) >= 2
    /\ entries[Len(entries)] = pending_multiline[1]

\* the line the next iteration of the loop of parse_lines takes
NextLine == lines[line_num + 1]

\* the entry that starts at the line just taken is the one held pending now,
\* or the one emitted last
StartedEntry ==
    \/ /\ pending_multiline' # None
       /\ pending_multiline'[1].line_number = line_num + 1
       /\ ~pending_multiline'[1].is_multiline
    \/ /\ pending_multiline' = None
       /\ entries' # <<>>
       /\ entries'[Len(entries')].line_number = line_num + 1

\* C25, in every step of the loop: a blank line changes nothing; a line that
\* matches the continuation predicate while an entry is pending is appended to
\* that entry and nothing is emitted; every other line has the pending entry,
\* if any, emitted, and starts an entry of its own
C25_Step ==
    (pc = "parse" /\ line_num < Len(lines)) =>
        IF Strip(NextLine) = ""
        THEN UNCHANGED <<pending_multiline, entries>>
        ELSE IF _is_continuation_line(NextLine) /\ pending_multiline # None
        THEN /\ entries' = entries
             /\ pending_multiline' # None
             /\ pending_multiline'[1].raw_line = pending_multiline[1].raw_line \o "\n" \o NextLine
        ELSE /\ SubSeq(entries', 1, Len(entries) + Len(pending_multiline))
                   = entries \o pending_multiline
             /\ Len(entries') <= Len(entries) + Len(pending_multiline) + 1
             /\ StartedEntry

\* C25, in every state: the emitted entries are in strictly increasing order
\* of their first lines, and the pending entry starts after all of them
C25_State ==
    /\ \A i, j \in 1..Len(entries) : i < j => entries[i].line_number < entries[j].line_number
    /\ (pc = "parse" /\ pending_multiline # None) =>
           \A j \in 1..Len(entries) : entries[j].line_number < pending_multiline[1].line_number

\* C25: a line is appended to an entry only if it matches the continuation
\* predicate while an entry is pending; every other line that is not blank
\* flushes the pending entry and is parsed as the first line of a new entry;
\* the entries are emitted in the order of their first lines
C25_FlushThenParse == []C25_State /\ [][C25_Step]_vars

\* what an entry is held for: exception text, level ERROR or FATAL, or a
\* continuation keyword in its message
HeldFor(entry) ==
    \/ entry.exception # None
    \/ entry.level \in {"ERROR", "FATAL"}
    \/ \E kw \in {"exception", "error", "traceback", "stack", "caused by"} :
           Contains(StrLower(entry.message), kw)

\* C26, in every state: the parser holds no entry or exactly one; the entry
\* held while the loop runs is held for exception text, level or keyword; and
\* is_multiline is true exactly for the entries that absorbed a line (their
\* raw text has a newline)
C26_State ==
    /\ Len(pending_multiline) <= 1
    /\ (pc = "parse" /\ pending_multiline # None) => HeldFor(pending_multiline[1])
    /\ \A e \in {entries[j] : j \in 1..Len(entries)}
                   \cup {pending_multiline[j] : j \in 1..Len(pending_multiline)} :
           e.is_multiline <=> Contains(e.raw_line, "\n")

\* C26, in every step: the emitted entries stay as they were emitted; an entry
\* is emitted as it was held; and the only entry that changes is the one held
\* pending, when it absorbs the line
C26_Step ==
    /\ Len(entries') >= Len(entries)
    /\ SubSeq(entries', 1, Len(entries)) = entries
    /\ (pc = "parse" /\ pending_multiline # None) =>
           \/ pending_multiline' = pending_multiline /\ entries' = entries
           \/ /\ entries' = entries
              /\ pending_multiline' =
                     Some(_append_to_multiline(pending_multiline[1], NextLine))
              /\ _is_continuation_line(NextLine)
           \/ /\ Len(entries') > Len(entries)
              /\ entries'[Len(entries) + 1] = pending_multiline[1]

\* C26: the parser is a machine of two states, no entry pending or one entry
\* pending; an entry is held only for exception text, level ERROR/FATAL or a
\* keyword; only the held entry is ever modified, never an emitted one
C26_TwoStateMachine == []C26_State /\ [][C26_Step]_vars

\* C26 witness: parse_lines has returned an entry that absorbed a line, after
\* an entry that was never held
C26_Witness ==
    /\ pc = "done"
    /\ \E i, j \in 1..Len(entries) :
           /\ i < j
           /\ ~HeldFor(entries[i])
           /\ entries[j].is_multiline

\* C27: every entry parse_lines returns from free-text lines that carries
\* exception content has a level other than UNKNOWN, whether the exception was
\* found on its first line or taken from an absorbed continuation line
C27_ExceptionPromoted ==
    pc = "done" =>
        \A i \in 1..Len(entries) :
            entries[i].exception # None => entries[i].level # "UNKNOWN"

\* C28: for a template map that is not empty, cluster_templates returns at
\* least one cluster, at most max_clusters of them and at most
\* max(1, n_templates div min_samples_per_cluster), and every cluster returned
\* has at least one member
C28_ClusterCount ==
    (pc = "done" /\ templates # <<>>) =>
        /\ Len(clusters) >= 1
        /\ Len(clusters) <= max_clusters
        /\ Len(clusters) <= MaxOf({1, Len(templates) \div min_samples_per_cluster})
        /\ \A c \in 1..Len(clusters) : Len(clusters[c].templates) >= 1

\* C28 witness: the partitioning step has run and cluster_templates has
\* returned as many clusters as both limits allow
C28_Witness ==
    /\ pc = "done"
    /\ cluster_labels # <<>>
    /\ Len(clusters) = 2
    /\ Len(templates) \div min_samples_per_cluster = 2
    /\ max_clusters = 2

\* the rules of VARIABLE_PATTERNS for hashes of 40 and of 64 hex digits
ShaRule == VARIABLE_PATTERNS[3]
Sha256Rule == VARIABLE_PATTERNS[4]

\* C29: once normalize_message has returned, a message that holds a standalone
\* hash of 40 hex digits has <SHA> in its output and one that holds a
\* standalone hash of 64 hex digits has <SHA256>: the rules before them in the
\* list do not take the value first
C29_HashPlaceholders ==
    normalized # None =>
        \A rule \in {ShaRule, Sha256Rule} :
            ReFound(rule[1], message) => Contains(normalized[1], rule[2])

\* the positions of the lines of ls that are not blank, ascending
NonBlankAt(ls) == SelectSeq([k \in 1..Len(ls) |-> k], LAMBDA k : Strip(ls[k]) # "")

\* how many lines the raw text of the entries before the i-th holds
RECURSIVE LinesBefore(_, _)
LinesBefore(es, i) ==
    IF i = 1 THEN 0
    ELSE LinesBefore(es, i - 1)
           + 1 + Cardinality({c \in 1..Len(es[i - 1].raw_line) :
                                 SubSeq(es[i - 1].raw_line, c, c) = "\n"})

\* the raw text of the entries es is the lines of ls that are not blank, each
\* once and in order, and each entry is numbered with the position of its
\* first line in ls
EveryLineOnce(es, ls) ==
    /\ Join([i \in 1..Len(es) |-> es[i].raw_line], "\n")
         = Join([m \in 1..Len(NonBlankAt(ls)) |-> ls[NonBlankAt(ls)[m]]], "\n")
    /\ \A i \in 1..Len(es) :
           /\ LinesBefore(es, i) + 1 <= Len(NonBlankAt(ls))
           /\ es[i].line_number = NonBlankAt(ls)[LinesBefore(es, i) + 1]

\* C30: when parse_lines ends, every line that is not blank is in the raw text
\* of exactly one emitted entry and no blank line is in any: the raw texts
\* joined by newlines are the non-blank lines in input order, and each entry's
\* line_number is the position of its first line, blank lines counted
C30_EveryLineOnce ==
    pc \in {"done", "raised"} => EveryLineOnce(entries, lines)

=============================================================================
